---- MODULE Spec2Model ----
\* Swap chains for the surfman surface manager (surfman-chains/lib.rs):
\* the per-swap-chain buffer protocol (SwapChainData + SurfmanProvider),
\* the device calls it makes, and the SwapChains registry.
EXTENDS Integers, Sequences, FiniteSets, TLC

\* ---------------------------------------------------------------- bounds
\* The objects a run constructs: SwapChain objects (Arc<Mutex<SwapChainData>>)
\* plus surfaces created by the device, the surfaces the contexts start
\* with not counted.
MaxObjects == 4
\* A device call of one kind can be made to fail at its 1st .. MaxFaultIndex-th
\* occurrence inside one operation.
MaxFaultIndex == 2
MaxShared == 2
\* The surfaces one swap chain may create while it cycles its buffers.
MaxCycled == 6
\* The swap chains and surfaces created while the threads contend for the locks.
MaxFair == 2

Contexts == {1, 2}
ChainObjs == 1..MaxObjects
Surfaces ==
    1..(Cardinality(Contexts) + (IF MaxCycled > MaxObjects THEN MaxCycled ELSE MaxObjects))
Ids == {1, 2}
\* Option::None for a surface slot, a chain handle or an id.
None == 0

\* Size2D<i32> as <<width, height>>.
SmallSize == <<1, 1>>
LargeSize == <<2, 1>>
ValidSizes == {SmallSize, LargeSize}
InputSizes == ValidSizes \cup {<<0, 1>>, <<1, 0>>}
NoSize == <<0, 0>>

VARIABLES
    chain,      \* ChainObjs -> SwapChainData (status "none" before construction)
    bound,      \* Contexts -> the surface bound to the context, or None
    live,       \* surfaces created and not yet destroyed by the device
    nsurf,      \* number of surfaces created so far
    ssize,      \* Surfaces -> size reported by device.surface_info
    held,       \* surfaces a consumer took and has not recycled
    table,      \* SwapChains::table : id -> chain object (a finite map)
    ids,        \* SwapChains::ids : context id -> set of swap chain ids (a finite map)
    ids_lock,   \* the context whose thread holds the mutex of ids, or None
    pc,         \* Contexts -> where the context's thread is in a registry call
    cur,        \* Contexts -> the id that registry call was given
    todo,       \* Contexts -> ids destroy_all has drained and not yet visited
    ret,        \* Contexts -> the call the thread made last, and its result
    listed,     \* Contexts -> the list the thread's latest iter has collected
    mutex,      \* ChainObjs -> the thread that holds the Mutex of the SwapChain, or None
    at          \* Threads -> the swap chain call the thread is inside, and its locks

chainVars == <<chain, bound, live, nsurf, ssize, held>>
regVars == <<table, ids, ids_lock, pc, cur, todo, ret, listed>>
lockVars == <<mutex, at>>
vars ==
    <<chain, bound, live, nsurf, ssize, held, table, ids, ids_lock, pc, cur, todo, ret,
      listed, mutex, at>>

\* ---------------------------------------------------------------- faults
\* Which device call fails during one operation: for each kind of call the
\* index of the failing occurrence (0: none fails). One call fails, or a
\* bind fails and a destroy of the rollback that follows it fails too.
NoFault == [create |-> 0, unbind |-> 0, bind |-> 0, destroy |-> 0]
Faults ==
    {NoFault, [NoFault EXCEPT !.create = 1]}
        \cup {[NoFault EXCEPT !.unbind = k] : k \in 1..MaxFaultIndex}
        \cup {[NoFault EXCEPT !.bind = k, !.destroy = d] :
                  k \in 1..MaxFaultIndex, d \in 0..MaxFaultIndex}
        \cup {[NoFault EXCEPT !.destroy = d] : d \in 1..MaxFaultIndex}

\* The faults of F that can strike an operation which, left alone, makes the
\* device calls counted in calls: the failing call has to be one it makes.
FaultsOf(F, calls) ==
    {f \in F : /\ f.create <= calls.create
               /\ f.unbind <= calls.unbind
               /\ f.bind <= calls.bind
               /\ (f.destroy <= calls.destroy \/ f.bind # 0)}

ZeroCalls == [create |-> 0, unbind |-> 0, bind |-> 0, destroy |-> 0, failed |-> 0]

NoChain ==
    [status |-> "none", size |-> NoSize, context_id |-> None,
     unattached_surface |-> None, pending_surface |-> None,
     recycled_surfaces |-> <<>>]

DroppedChain == [NoChain EXCEPT !.status = "dropped"]

\* The state an operation works on, threaded through its steps:
\* ok/ret are the Result of the latest call, err names the device call whose
\* error is the latest one kept, res is the operation's result once it has
\* returned ("" while it is still running).
World ==
    [chain |-> chain, bound |-> bound, live |-> live, nsurf |-> nsurf,
     ssize |-> ssize, table |-> table, ids |-> ids,
     calls |-> ZeroCalls, ok |-> TRUE, ret |-> None, res |-> "", err |-> ""]

Return(w, r) == [w EXCEPT !.res = r]

\* let _ = <device call>: the call has led from w to after, and its result,
\* an error included, is thrown away.
Discarded(w, after) == [after EXCEPT !.err = w.err]

\* ---------------------------------------------------------------- device
\* device.create_surface: a fresh surface of the requested size, or an error.
create_surface(w, f, size) ==
    LET k == w.calls.create + 1
        s == w.nsurf + 1
        w1 == [w EXCEPT !.calls.create = k]
    IN IF f.create = k
       THEN [w1 EXCEPT !.ok = FALSE, !.ret = None, !.calls.failed = @ + 1, !.err = "create"]
       ELSE [w1 EXCEPT !.ok = TRUE, !.ret = s, !.nsurf = s,
                       !.live = @ \cup {s},
                       !.ssize = [x \in Surfaces |-> IF x = s THEN size ELSE w.ssize[x]]]

\* device.destroy_surface: on an error the surface stays undestroyed in the
\* caller's hands.
destroy_surface(w, f, s) ==
    LET k == w.calls.destroy + 1
        w1 == [w EXCEPT !.calls.destroy = k]
    IN IF f.destroy = k
       THEN [w1 EXCEPT !.ok = FALSE, !.calls.failed = @ + 1, !.err = "destroy"]
       ELSE [w1 EXCEPT !.ok = TRUE, !.live = @ \ {s}]

\* device.unbind_surface_from_context: Ok(Some(surface)), Ok(None) or Err.
unbind_surface_from_context(w, f, c) ==
    LET k == w.calls.unbind + 1
        w1 == [w EXCEPT !.calls.unbind = k]
    IN IF f.unbind = k
       THEN [w1 EXCEPT !.ok = FALSE, !.ret = None, !.calls.failed = @ + 1, !.err = "unbind"]
       ELSE [w1 EXCEPT !.ok = TRUE, !.ret = w.bound[c], !.bound[c] = None]

\* device.bind_surface_to_context: on an error the surface is handed back.
bind_surface_to_context(w, f, c, s) ==
    LET k == w.calls.bind + 1
        w1 == [w EXCEPT !.calls.bind = k]
    IN IF f.bind = k
       THEN [w1 EXCEPT !.ok = FALSE, !.calls.failed = @ + 1, !.err = "bind"]
       ELSE [w1 EXCEPT !.ok = TRUE, !.bound[c] = s]

\* ---------------------------------------------------------------- SurfmanProvider
\* Iterator::position with the size predicate of provide_surface: the index
\* of the first pooled surface of that size, 0 when there is none.
position(pool, sizes, size) ==
    LET hits == {i \in 1..Len(pool) : sizes[pool[i]] = size}
    IN IF hits = {} THEN 0 ELSE CHOOSE i \in hits : \A j \in hits : i <= j

\* Vec::swap_remove: the last element takes the removed one's place.
swap_remove(pool, i) ==
    [j \in 1..(Len(pool) - 1) |-> IF j = i THEN pool[Len(pool)] ELSE pool[j]]

recycle_front_buffer(w, ch) ==
    IF w.chain[ch].pending_surface # None
    THEN [w EXCEPT !.chain[ch].recycled_surfaces = Append(@, w.chain[ch].pending_surface),
                   !.chain[ch].pending_surface = None]
    ELSE w

provide_surface(w, f, ch, size) ==
    LET pool == w.chain[ch].recycled_surfaces
        index == position(pool, w.ssize, size)
    IN IF index # 0
       THEN [w EXCEPT !.ok = TRUE, !.ret = pool[index],
                      !.chain[ch].recycled_surfaces = swap_remove(pool, index)]
       ELSE create_surface(w, f, size)

create_sized_surface_recycling(w, f, ch, size) ==
    create_surface(recycle_front_buffer(w, ch), f, size)

create_sized_surface_pooled(w, f, ch, size) == provide_surface(w, f, ch, size)

create_sized_surface(w, f, ch, size) == create_surface(w, f, size)

\* for surface in <iterator> { device.destroy_surface(..)? }: stops at the
\* first error; the iterator (and what it still holds) is dropped.
RECURSIVE destroy_each(_, _, _)
destroy_each(w, f, surfaces) ==
    IF surfaces = <<>>
    THEN [w EXCEPT !.ok = TRUE]
    ELSE LET w1 == destroy_surface(w, f, Head(surfaces))
         IN IF w1.ok THEN destroy_each(w1, f, Tail(surfaces)) ELSE w1

set_front_buffer_keeps_pool(w, f, ch, new_front_buffer) ==
    [w EXCEPT !.chain[ch].pending_surface = new_front_buffer, !.ok = TRUE]

set_front_buffer(w, f, ch, new_front_buffer) ==
    LET pool == w.chain[ch].recycled_surfaces
        w1 == [w EXCEPT !.chain[ch].pending_surface = new_front_buffer,
                        !.chain[ch].recycled_surfaces = <<>>]
    IN destroy_each(w1, f, pool)

destroy_all_surfaces_pending_only(w, f, ch) ==
    LET pending == w.chain[ch].pending_surface
        w1 == [w EXCEPT !.chain[ch].pending_surface = None]
    IN IF pending # None THEN destroy_surface(w1, f, pending) ELSE [w1 EXCEPT !.ok = TRUE]

destroy_all_surfaces(w, f, ch) ==
    LET pending == w.chain[ch].pending_surface
        surfaces == (IF pending # None THEN <<pending>> ELSE <<>>)
                        \o w.chain[ch].recycled_surfaces
        w1 == [w EXCEPT !.chain[ch].pending_surface = None,
                        !.chain[ch].recycled_surfaces = <<>>]
    IN destroy_each(w1, f, surfaces)

\* ---------------------------------------------------------------- SwapChainData
validate_context_skipped(w, ch, c) == TRUE

validate_context(w, ch, c) == w.chain[ch].context_id = c

replace_attached_propagating(w, f, c, new_back_buffer) ==
    LET w1 == unbind_surface_from_context(w, f, c)
    IN IF ~w1.ok THEN Return(w1, "BackendError")
       ELSE IF w1.ret = None THEN Return(w1, "Panic")
       ELSE LET old == w1.ret
                w2 == bind_surface_to_context(w1, f, c, new_back_buffer)
            IN IF ~w2.ok
               THEN Return(destroy_surface(w2, f, new_back_buffer), "BackendError")
               ELSE [w2 EXCEPT !.ret = old]

\* The attached branch shared by swap_buffers and resize: unbind the context's
\* surface, bind the new back buffer, destroy it again if the bind fails.
\* ret is the surface taken out of the context when res is still "".
replace_attached(w, f, c, new_back_buffer) ==
    LET w1 == unbind_surface_from_context(w, f, c)
    IN IF ~w1.ok THEN Return(w1, "BackendError")
       ELSE IF w1.ret = None THEN Return(w1, "Panic")
       ELSE LET old == w1.ret
                w2 == bind_surface_to_context(w1, f, c, new_back_buffer)
            IN IF ~w2.ok
               THEN Return(Discarded(w2, destroy_surface(w2, f, new_back_buffer)),
                           "BackendError")
               ELSE [w2 EXCEPT !.ret = old]

swap_buffers(w, f, c, ch) ==
    IF ~validate_context(w, ch, c) THEN Return(w, "IncompatibleContext")
    ELSE LET w1 == recycle_front_buffer(w, ch)
             w2 == provide_surface(w1, f, ch, w1.chain[ch].size)
         IN IF ~w2.ok THEN Return(w2, "BackendError")
            ELSE LET new_back_buffer == w2.ret
                     w3 == IF w2.chain[ch].unattached_surface # None
                           THEN [w2 EXCEPT !.ret = w2.chain[ch].unattached_surface,
                                           !.chain[ch].unattached_surface = new_back_buffer]
                           ELSE replace_attached(w2, f, c, new_back_buffer)
                 IN IF w3.res # "" THEN w3
                    ELSE LET w4 == set_front_buffer(w3, f, ch, w3.ret)
                         IN Return(w4, IF w4.ok THEN "Ok" ELSE "BackendError")

take_attachment_from_any(w, f, c, self, other) ==
    LET surface == w.chain[self].unattached_surface
        w1 == [w EXCEPT !.chain[self].unattached_surface = None]
        w2 == unbind_surface_from_context(w1, f, c)
        w3 == bind_surface_to_context(w2, f, c, surface)
    IN IF surface = None THEN Return(w1, "Failed")
       ELSE IF ~w2.ok \/ ~w3.ok THEN Return(w3, "BackendError")
       ELSE Return([w3 EXCEPT !.chain[other].unattached_surface = w2.ret], "Ok")

take_attachment_from(w, f, c, self, other) ==
    IF ~validate_context(w, self, c) THEN Return(w, "IncompatibleContext")
    ELSE IF ~validate_context(w, other, c) THEN Return(w, "IncompatibleContext")
    ELSE \* the tuple is built, and self's slot emptied by take(), before the
         \* pattern is matched
         LET surface == w.chain[self].unattached_surface
             w1 == [w EXCEPT !.chain[self].unattached_surface = None]
         IN IF surface # None /\ w1.chain[other].unattached_surface = None
            THEN LET w2 == unbind_surface_from_context(w1, f, c)
                 IN IF ~w2.ok THEN Return(w2, "BackendError")
                    ELSE IF w2.ret = None THEN Return(w2, "Panic")
                    ELSE LET old_surface == w2.ret
                             w3 == bind_surface_to_context(w2, f, c, surface)
                         IN IF ~w3.ok
                            THEN Return(Discarded(w3, destroy_surface(w3, f, surface)),
                                        "BackendError")
                            ELSE Return([w3 EXCEPT !.chain[other].unattached_surface =
                                                        old_surface], "Ok")
            ELSE Return(w1, "Failed")

below_one_never(size) == FALSE

\* (size.width < 1) || (size.height < 1)
below_one(size) == size[1] < 1 \/ size[2] < 1

resize(w, f, c, ch, size) ==
    IF ~validate_context(w, ch, c) THEN Return(w, "IncompatibleContext")
    ELSE IF below_one(size) THEN Return(w, "Failed")
    ELSE LET w1 == create_sized_surface(w, f, ch, size)
         IN IF ~w1.ok THEN Return(w1, "BackendError")
            ELSE LET new_back_buffer == w1.ret
                     w2 == IF w1.chain[ch].unattached_surface # None
                           THEN [w1 EXCEPT !.ret = w1.chain[ch].unattached_surface,
                                           !.chain[ch].unattached_surface = new_back_buffer]
                           ELSE replace_attached(w1, f, c, new_back_buffer)
                 IN IF w2.res # "" THEN w2
                    ELSE LET w3 == destroy_surface(w2, f, w2.ret)
                         IN IF ~w3.ok THEN Return(w3, "BackendError")
                            ELSE Return([w3 EXCEPT !.chain[ch].size = size], "Ok")

take_front_buffer_oldest(w, ch) ==
    LET pool == w.chain[ch].recycled_surfaces
    IN IF w.chain[ch].pending_surface # None
       THEN [w EXCEPT !.ret = w.chain[ch].pending_surface,
                      !.chain[ch].pending_surface = None]
       ELSE IF pool # <<>>
       THEN [w EXCEPT !.ret = Head(pool), !.chain[ch].recycled_surfaces = Tail(pool)]
       ELSE [w EXCEPT !.ret = None]

\* SurfmanProvider::take_front_buffer, reached through take_surface:
\* ret is the surface handed to the consumer, None when there is none.
take_front_buffer(w, ch) ==
    LET pool == w.chain[ch].recycled_surfaces
    IN IF w.chain[ch].pending_surface # None
       THEN [w EXCEPT !.ret = w.chain[ch].pending_surface,
                      !.chain[ch].pending_surface = None]
       ELSE IF pool # <<>>
       THEN [w EXCEPT !.ret = pool[Len(pool)],
                      !.chain[ch].recycled_surfaces = SubSeq(pool, 1, Len(pool) - 1)]
       ELSE [w EXCEPT !.ret = None]

take_surface(w, ch) == Return(take_front_buffer(w, ch), "Ok")

recycle_surface(w, ch, surface) ==
    Return([w EXCEPT !.chain[ch].recycled_surfaces = Append(@, surface)], "Ok")

\* clear_surface, as far as surfaces go (the GL state it saves, clears and
\* restores is not part of the model).
clear_surface(w, f, c, ch) ==
    IF ~validate_context(w, ch, c) THEN Return(w, "IncompatibleContext")
    ELSE LET surface == w.chain[ch].unattached_surface
             w1 == [w EXCEPT !.chain[ch].unattached_surface = None]
         IN IF surface = None
            THEN \* context_surface_info(context).unwrap().unwrap()
                 Return(w1, IF w1.bound[c] = None THEN "Panic" ELSE "Ok")
            ELSE LET w2 == unbind_surface_from_context(w1, f, c)
                     reattach == w2.ret
                     w3 == bind_surface_to_context(w2, f, c, surface)
                     w3a == destroy_surface(w3, f, surface)
                     w3b == IF reattach # None THEN destroy_surface(w3a, f, reattach)
                            ELSE w3a
                     w4 == unbind_surface_from_context(w3, f, c)
                     old_surface == w4.ret
                     w5 == bind_surface_to_context(w4, f, c, reattach)
                 IN IF ~w2.ok THEN Return(w2, "BackendError")
                    ELSE IF ~w3.ok THEN Return(Discarded(w3, w3b), "BackendError")
                    ELSE IF reattach = None THEN Return(w3, "Ok")
                    ELSE IF ~w4.ok THEN Return(w4, "BackendError")
                    ELSE IF ~w5.ok
                    THEN Return(Discarded(w5, destroy_surface(w5, f, reattach)), "BackendError")
                    ELSE Return([w5 EXCEPT !.chain[ch].unattached_surface = old_surface],
                                "Ok")

\* status "destroyed" records that destroy has returned Ok on the object; the
\* code keeps no such flag and never reads it.
destroy(w, f, c, ch) ==
    IF ~validate_context(w, ch, c) THEN Return(w, "IncompatibleContext")
    ELSE LET surface == w.chain[ch].unattached_surface
             w1 == [w EXCEPT !.chain[ch].unattached_surface = None, !.ok = TRUE]
             w2 == IF surface # None THEN destroy_surface(w1, f, surface) ELSE w1
         IN IF ~w2.ok THEN Return(w2, "BackendError")
            ELSE LET w3 == destroy_all_surfaces(w2, f, ch)
                 IN IF ~w3.ok THEN Return(w3, "BackendError")
                    ELSE Return([w3 EXCEPT !.chain[ch].status = "destroyed"], "Ok")

\* SwapChain::create_attached: the new object takes the place ch.
create_attached(w, c, ch) ==
    IF w.bound[c] = None THEN Return(w, "Panic")
    ELSE Return([w EXCEPT !.chain[ch] =
                    [status |-> "live", size |-> w.ssize[w.bound[c]], context_id |-> c,
                     unattached_surface |-> None, pending_surface |-> None,
                     recycled_surfaces |-> <<>>]], "Ok")

\* SwapChain::create_detached: the provider is new, so its pool is empty.
create_detached(w, f, c, ch, size) ==
    LET w1 == provide_surface(w, f, ch, size)
    IN IF ~w1.ok THEN Return(w1, "BackendError")
       ELSE Return([w1 EXCEPT !.chain[ch] =
                        [status |-> "live", size |-> size, context_id |-> c,
                         unattached_surface |-> w1.ret, pending_surface |-> None,
                         recycled_surfaces |-> <<>>]], "Ok")

SwapChain_is_attached(ch) == chain[ch].unattached_surface = None
SwapChain_size(ch) == chain[ch].size

\* ---------------------------------------------------------------- SwapChains
\* The registry's maps are functions whose domain is the set of keys.
Occupied_never(w, id) == FALSE

\* Entry::Occupied for the entry of id in the table.
Occupied(w, id) == id \in DOMAIN w.table

insert(map, key, value) ==
    [k \in DOMAIN map \cup {key} |-> IF k = key THEN value ELSE map[k]]

remove(map, key) == [k \in DOMAIN map \ {key} |-> map[k]]

\* create_attached_swap_chain while it holds the write lock of the table;
\* res stays "" when the call goes on to the index. ch is the place of the
\* SwapChain object that is constructed.
create_attached_swap_chain(w, c, id, ch) ==
    IF Occupied(w, id) THEN Return(w, "Failed")
    ELSE LET w1 == create_attached(w, c, ch)
         IN IF w1.res # "Ok" THEN w1
            ELSE [w1 EXCEPT !.table = insert(@, id, ch), !.res = ""]

create_detached_swap_chain(w, f, c, id, size, ch) ==
    IF Occupied(w, id) THEN Return(w, "Failed")
    ELSE LET w1 == create_detached(w, f, c, ch, size)
         IN IF w1.res # "Ok" THEN w1
            ELSE [w1 EXCEPT !.table = insert(@, id, ch), !.res = ""]

ids_insert_skipped(w, c, id) == Return(w, "Ok")

\* self.ids().entry(context_id).or_insert_with(Default::default).insert(id)
ids_insert(w, c, id) ==
    Return([w EXCEPT !.ids = insert(@, c, (IF c \in DOMAIN @ THEN @[c] ELSE {}) \cup {id})],
           "Ok")

\* The if-let on table_mut().remove(&id) shared by destroy and destroy_all:
\* the entry is removed, then the swap chain destroyed, under the write lock
\* of the table; res stays "" when the ? does not return. Either way the
\* handle taken out of the table is dropped at the end, and with it (the
\* registry hands no other handle to the threads of this model) the
\* SwapChainData and whatever surfaces it still holds.
remove_and_destroy(w, f, c, id) ==
    IF id \in DOMAIN w.table
    THEN LET w1 == destroy([w EXCEPT !.table = remove(@, id)], f, c, w.table[id])
             w2 == [w1 EXCEPT !.chain[w.table[id]] = DroppedChain]
         IN IF w2.res # "Ok" THEN w2 ELSE [w2 EXCEPT !.res = ""]
    ELSE w

ids_remove_skipped(w, c, id) == Return(w, "Ok")

\* if let Some(ids) = self.ids().get_mut(&context_id) { ids.remove(&id); }
ids_remove(w, c, id) ==
    Return(IF c \in DOMAIN w.ids THEN [w EXCEPT !.ids[c] = @ \ {id}] ELSE w, "Ok")

\* The two creations from call to return, with no step of another thread in
\* between.
SwapChains_create_attached(w, c, id, ch) ==
    LET w1 == create_attached_swap_chain(w, c, id, ch)
    IN IF w1.res # "" THEN w1 ELSE ids_insert(w1, c, id)

SwapChains_create_detached(w, f, c, id, size, ch) ==
    LET w1 == create_detached_swap_chain(w, f, c, id, size, ch)
    IN IF w1.res # "" THEN w1 ELSE ids_insert(w1, c, id)

\* SwapChains::destroy from call to return, with no step of another thread
\* in between.
SwapChains_destroy(w, f, c, id) ==
    LET w1 == remove_and_destroy(w, f, c, id)
    IN IF w1.res # "" THEN w1 ELSE ids_remove(w1, c, id)

\* SwapChainsAPI::get: the handle stored under id, if any.
get(id) == IF id \in DOMAIN table THEN table[id] ELSE None

\* ---------------------------------------------------------------- calls on swap chains
\* Every call on a SwapChain holds the chain's mutex from its first to its
\* last step (SwapChain::lock), and the context it is given is borrowed
\* mutably, so each call is one step.
Objects(w) ==
    (w.nsurf - Cardinality(Contexts))
        + Cardinality({ch \in ChainObjs : w.chain[ch].status # "none"})

Commit(w) ==
    /\ Objects(w) <= MaxObjects
    /\ chain' = w.chain
    /\ bound' = w.bound
    /\ live' = w.live
    /\ nsurf' = w.nsurf
    /\ ssize' = w.ssize

\* The place a newly constructed SwapChain object takes.
Constructed == {ch \in ChainObjs : chain[ch].status # "none"}
FreeChain == Cardinality(Constructed) + 1
\* The contexts start out alike, so the first object is context 1's.
MayCreate(c) == FreeChain \in ChainObjs /\ (FreeChain = 1 => c = 1)

CreateAttached(c) ==
    /\ MayCreate(c)
    /\ Commit(create_attached(World, c, FreeChain))
    /\ UNCHANGED <<held, regVars, lockVars>>

CreateDetached(c, size, F) ==
    /\ MayCreate(c)
    /\ \E f \in FaultsOf(F, create_detached(World, NoFault, c, FreeChain, size).calls) :
          Commit(create_detached(World, f, c, FreeChain, size))
    /\ UNCHANGED <<held, regVars, lockVars>>

SwapBuffers(c, ch, F) ==
    /\ \E f \in FaultsOf(F, swap_buffers(World, NoFault, c, ch).calls) :
          Commit(swap_buffers(World, f, c, ch))
    /\ UNCHANGED <<held, regVars, lockVars>>

TakeAttachmentFrom(c, self, other, F) ==
    /\ self # other
    /\ \E f \in FaultsOf(F, take_attachment_from(World, NoFault, c, self, other).calls) :
          Commit(take_attachment_from(World, f, c, self, other))
    /\ UNCHANGED <<held, regVars, lockVars>>

Resize(c, ch, size, F) ==
    /\ \E f \in FaultsOf(F, resize(World, NoFault, c, ch, size).calls) :
          Commit(resize(World, f, c, ch, size))
    /\ UNCHANGED <<held, regVars, lockVars>>

ClearSurface(c, ch, F) ==
    /\ \E f \in FaultsOf(F, clear_surface(World, NoFault, c, ch).calls) :
          Commit(clear_surface(World, f, c, ch))
    /\ UNCHANGED <<held, regVars, lockVars>>

Destroy(c, ch, F) ==
    /\ \E f \in FaultsOf(F, destroy(World, NoFault, c, ch).calls) :
          Commit(destroy(World, f, c, ch))
    /\ UNCHANGED <<held, regVars, lockVars>>

\* Consumer calls: no context is involved.
TakeSurface(ch) ==
    /\ LET w == take_surface(World, ch)
       IN /\ Commit(w)
          /\ held' = IF w.ret # None THEN held \cup {w.ret} ELSE held
    /\ UNCHANGED <<regVars, lockVars>>

\* A consumer can only hand back a surface it holds.
RecycleSurface(ch, surface) ==
    /\ Commit(recycle_surface(World, ch, surface))
    /\ held' = held \ {surface}
    /\ UNCHANGED <<regVars, lockVars>>

\* The calls on one swap chain that may create up to MaxCycled surfaces, with
\* a consumer that holds one surface at a time.
CommitCycled(w) ==
    /\ w.nsurf <= Cardinality(Contexts) + MaxCycled
    /\ chain' = w.chain
    /\ bound' = w.bound
    /\ live' = w.live
    /\ nsurf' = w.nsurf
    /\ ssize' = w.ssize

CycledSwapBuffers(c, ch) ==
    /\ CommitCycled(swap_buffers(World, NoFault, c, ch))
    /\ UNCHANGED <<held, regVars, lockVars>>

CycledResize(c, ch, size) ==
    /\ CommitCycled(resize(World, NoFault, c, ch, size))
    /\ UNCHANGED <<held, regVars, lockVars>>

CycledTakeSurface(ch) ==
    /\ held = {}
    /\ LET w == take_surface(World, ch)
       IN /\ CommitCycled(w)
          /\ held' = IF w.ret # None THEN {w.ret} ELSE {}
    /\ UNCHANGED <<regVars, lockVars>>

CycledRecycleSurface(ch, surface) ==
    /\ CommitCycled(recycle_surface(World, ch, surface))
    /\ held' = held \ {surface}
    /\ UNCHANGED <<regVars, lockVars>>

\* ---------------------------------------------------------------- calls on the registry
\* Each context is used by one thread. A registry call is a sequence of steps,
\* one per lock it takes; the mutex of ids is held across the loop of
\* destroy_all.
Returned(c, op, res) ==
    /\ pc' = [pc EXCEPT ![c] = "idle"]
    /\ cur' = [cur EXCEPT ![c] = None]
    /\ ret' = [ret EXCEPT ![c] = [op |-> op, res |-> res]]

Goes(c, to, id) ==
    /\ pc' = [pc EXCEPT ![c] = to]
    /\ cur' = [cur EXCEPT ![c] = id]
    /\ ret' = [ret EXCEPT ![c] = [op |-> to, res |-> ""]]

CommitTable(w) == Commit(w) /\ table' = w.table

CreateAttachedSwapChain(c, id) ==
    /\ pc[c] = "idle"
    /\ Occupied(World, id) \/ MayCreate(c)
    /\ LET w == create_attached_swap_chain(World, c, id, FreeChain)
       IN /\ CommitTable(w)
          /\ IF w.res = "" THEN Goes(c, "create_attached_swap_chain", id)
             ELSE Returned(c, "create_attached_swap_chain", w.res)
    /\ UNCHANGED <<held, ids, ids_lock, todo, listed, lockVars>>

CreateDetachedSwapChain(c, id, size, F) ==
    /\ pc[c] = "idle"
    /\ Occupied(World, id) \/ MayCreate(c)
    /\ \E f \in FaultsOf(F, create_detached_swap_chain(World, NoFault, c, id, size,
                                                       FreeChain).calls) :
          LET w == create_detached_swap_chain(World, f, c, id, size, FreeChain)
          IN /\ CommitTable(w)
             /\ IF w.res = "" THEN Goes(c, "create_detached_swap_chain", id)
                ELSE Returned(c, "create_detached_swap_chain", w.res)
    /\ UNCHANGED <<held, ids, ids_lock, todo, listed, lockVars>>

\* The second half of both creations: the id enters the index of the context.
CreateIndex(c) ==
    /\ pc[c] \in {"create_attached_swap_chain", "create_detached_swap_chain"}
    /\ ids_lock = None
    /\ ids' = ids_insert(World, c, cur[c]).ids
    /\ Returned(c, pc[c], "Ok")
    /\ UNCHANGED <<chainVars, table, ids_lock, todo, listed, lockVars>>

DestroySwapChain(c, id, F) ==
    /\ pc[c] = "idle"
    /\ \E f \in FaultsOf(F, remove_and_destroy(World, NoFault, c, id).calls) :
          LET w == remove_and_destroy(World, f, c, id)
          IN /\ CommitTable(w)
             /\ IF w.res = "" THEN Goes(c, "destroy", id)
                ELSE Returned(c, "destroy", w.res)
    /\ UNCHANGED <<held, ids, ids_lock, todo, listed, lockVars>>

DestroyIndex(c) ==
    /\ pc[c] = "destroy"
    /\ ids_lock = None
    /\ ids' = ids_remove(World, c, cur[c]).ids
    /\ Returned(c, "destroy", "Ok")
    /\ UNCHANGED <<chainVars, table, ids_lock, todo, listed, lockVars>>

\* if let Some(mut ids) = self.ids().remove(&context_id): the entry leaves the
\* index and the guard of the mutex lives until the call returns.
DestroyAllBegin(c) ==
    /\ pc[c] = "idle"
    /\ ids_lock = None
    /\ IF c \in DOMAIN ids
       THEN /\ ids' = remove(ids, c)
            /\ todo' = [todo EXCEPT ![c] = ids[c]]
            /\ ids_lock' = c
            /\ Goes(c, "destroy_all", None)
       ELSE /\ Returned(c, "destroy_all", "Ok")
            /\ UNCHANGED <<ids, todo, ids_lock>>
    /\ UNCHANGED <<chainVars, table, listed, lockVars>>

\* One turn of for id in ids.drain(): a hash set yields its ids in any order.
\* An error returned by a destroy ends the call and drops what is left of
\* the drain.
DestroyAllNext(c, F) ==
    /\ pc[c] = "destroy_all"
    /\ \E id \in todo[c] :
          \E f \in FaultsOf(F, remove_and_destroy(World, NoFault, c, id).calls) :
             LET w == remove_and_destroy(World, f, c, id)
             IN /\ CommitTable(w)
                /\ IF w.res = ""
                   THEN /\ todo' = [todo EXCEPT ![c] = @ \ {id}]
                        /\ UNCHANGED <<pc, cur, ret, ids_lock>>
                   ELSE /\ todo' = [todo EXCEPT ![c] = {}]
                        /\ ids_lock' = None
                        /\ Returned(c, "destroy_all", w.res)
    /\ UNCHANGED <<held, ids, listed, lockVars>>

DestroyAllEnd(c) ==
    /\ pc[c] = "destroy_all"
    /\ todo[c] = {}
    /\ ids_lock' = None
    /\ Returned(c, "destroy_all", "Ok")
    /\ UNCHANGED <<chainVars, table, ids, todo, listed, lockVars>>

\* One turn of iter's filter_map: (id, self.table().get(id)?.clone()), or
\* nothing when the table has no entry for id.
iter_filter_map_unfiltered(list, map, id) ==
    Append(list, <<id, IF id \in DOMAIN map THEN map[id] ELSE None>>)

iter_filter_map(list, map, id) ==
    IF id \in DOMAIN map THEN Append(list, <<id, map[id]>>) ELSE list

\* SwapChains::iter: self.ids() is a temporary of the whole expression, so
\* the mutex of the index is held until collect() has run; the set of the
\* context is walked in any order, with one read lock of the table per id.
IterBegin(c) ==
    /\ pc[c] = "idle"
    /\ ids_lock = None
    /\ ids_lock' = c
    /\ todo' = [todo EXCEPT ![c] = IF c \in DOMAIN ids THEN ids[c] ELSE {}]
    /\ listed' = [listed EXCEPT ![c] = << >>]
    /\ Goes(c, "iter", None)
    /\ UNCHANGED <<chainVars, table, ids, lockVars>>

IterNext(c) ==
    /\ pc[c] = "iter"
    /\ \E id \in todo[c] :
          /\ listed' = [listed EXCEPT ![c] = iter_filter_map(@, table, id)]
          /\ todo' = [todo EXCEPT ![c] = @ \ {id}]
    /\ UNCHANGED <<chainVars, table, ids, ids_lock, pc, cur, ret, lockVars>>

\* collect::<Vec<_>>().into_iter(): the list is the caller's own.
IterEnd(c) ==
    /\ pc[c] = "iter"
    /\ todo[c] = {}
    /\ ids_lock' = None
    /\ Returned(c, "iter", "Ok")
    /\ UNCHANGED <<chainVars, table, ids, todo, listed, lockVars>>

\* ---------------------------------------------------------------- calls through the Mutex
\* SwapChain wraps SwapChainData in Arc<Mutex<..>>: every call of a handle
\* locks the Mutex, runs the SwapChainData method and unlocks. Each context is
\* used by one thread, which is the producer of the swap chains of its
\* context and may be a consumer of any swap chain.
Threads == Contexts

\* at[t]: the call thread t is inside, the swap chains whose lock() has
\* returned to it, in that order (has), and the SwapChainData it found behind
\* each of them (seen).
Idle ==
    [op |-> "", self |-> None, other |-> None, size |-> NoSize, surface |-> None,
     has |-> << >>, seen |-> << >>]

Panicked == [Idle EXCEPT !.op = "panicked"]

Free(t) == at[t] = Idle /\ pc[t] = "idle"

mutex_free_always(ch) == TRUE

\* Mutex::lock returns once no thread holds the Mutex.
mutex_free(ch) == mutex[ch] = None

lock_order_reversed(self, other) == <<other, self>>

\* self.lock().take_attachment_from(device, context, &mut *other.lock()):
\* the receiver is evaluated, and so locked, before the argument.
lock_order(self, other) == <<self, other>>

Entered(a, ch) == [a EXCEPT !.has = Append(@, ch), !.seen = insert(@, ch, chain[ch])]

Holds(t, ch) == \E i \in DOMAIN at[t].has : at[t].has[i] = ch

\* The swap chains a call locks before it runs the SwapChainData method.
Needed(a) ==
    IF a.op = "take_attachment_from" THEN lock_order(a.self, a.other) ELSE <<a.self>>

Ready(t, op) == at[t].op = op /\ at[t].has = Needed(at[t])

\* The guards are dropped when the call returns.
Unlocked(t) ==
    /\ mutex' = [ch \in ChainObjs |-> IF Holds(t, ch) THEN None ELSE mutex[ch]]
    /\ at' = [at EXCEPT ![t] = Idle]

\* self.lock() of a call on one swap chain. A surface given to
\* recycle_surface is moved into the call.
Lock(t, op, ch, size, surface) ==
    /\ Free(t)
    /\ mutex_free(ch)
    /\ mutex' = [mutex EXCEPT ![ch] = t]
    /\ at' = [at EXCEPT ![t] = Entered([Idle EXCEPT !.op = op, !.self = ch,
                                                      !.size = size, !.surface = surface], ch)]
    /\ held' = held \ {surface}
    /\ UNCHANGED <<chain, bound, live, nsurf, ssize, regVars>>

\* The first lock() of SwapChain::take_attachment_from.
LockFirst(t, self, other) ==
    /\ Free(t)
    /\ mutex_free(lock_order(self, other)[1])
    /\ mutex' = [mutex EXCEPT ![lock_order(self, other)[1]] = t]
    /\ at' = [at EXCEPT ![t] = Entered([Idle EXCEPT !.op = "take_attachment_from",
                                                      !.self = self, !.other = other],
                                       lock_order(self, other)[1])]
    /\ UNCHANGED <<chainVars, regVars>>

\* Its second lock(), of a Mutex the thread does not hold itself.
LockSecond(t) ==
    /\ at[t].op = "take_attachment_from"
    /\ Len(at[t].has) = 1
    /\ ~Holds(t, Needed(at[t])[2])
    /\ mutex_free(Needed(at[t])[2])
    /\ mutex' = [mutex EXCEPT ![Needed(at[t])[2]] = t]
    /\ at' = [at EXCEPT ![t] = Entered(@, Needed(at[t])[2])]
    /\ UNCHANGED <<chainVars, regVars>>

\* Its second lock() when other is a clone of self: std::sync::Mutex::lock
\* does not return when the calling thread holds the Mutex; it blocks for
\* ever (no step of the thread) or it panics, which this step is. The
\* unwinding drops the guard of self and ends the thread.
Relock(t) ==
    /\ at[t].op = "take_attachment_from"
    /\ Len(at[t].has) = 1
    /\ Holds(t, Needed(at[t])[2])
    /\ mutex' = [mutex EXCEPT ![at[t].self] = None]
    /\ at' = [at EXCEPT ![t] = Panicked]
    /\ UNCHANGED <<chainVars, regVars>>

SwapBuffersLocked(c) ==
    /\ Ready(c, "swap_buffers")
    /\ LET w == swap_buffers(World, NoFault, c, at[c].self)
       IN Commit(w)
    /\ Unlocked(c)
    /\ UNCHANGED <<held, regVars>>

TakeAttachmentFromLocked(c) ==
    /\ Ready(c, "take_attachment_from")
    /\ LET w == take_attachment_from(World, NoFault, c, at[c].self, at[c].other)
       IN Commit(w)
    /\ Unlocked(c)
    /\ UNCHANGED <<held, regVars>>

ResizeLocked(c) ==
    /\ Ready(c, "resize")
    /\ LET w == resize(World, NoFault, c, at[c].self, at[c].size)
       IN Commit(w)
    /\ Unlocked(c)
    /\ UNCHANGED <<held, regVars>>

TakeSurfaceLocked(t) ==
    /\ Ready(t, "take_surface")
    /\ LET w == take_surface(World, at[t].self)
       IN /\ Commit(w)
          /\ held' = IF w.ret # None THEN held \cup {w.ret} ELSE held
    /\ Unlocked(t)
    /\ UNCHANGED regVars

RecycleSurfaceLocked(t) ==
    /\ Ready(t, "recycle_surface")
    /\ Commit(recycle_surface(World, at[t].self, at[t].surface))
    /\ Unlocked(t)
    /\ UNCHANGED <<held, regVars>>

\* SwapChain::destroy through a handle.
DestroyLocked(c) ==
    /\ Ready(c, "destroy")
    /\ Commit(destroy(World, NoFault, c, at[c].self))
    /\ Unlocked(c)
    /\ UNCHANGED <<held, regVars>>

\* ---------------------------------------------------------------- the registry's locks
\* Registry calls by threads that also use swap chains through handles: a
\* step per lock() that may have to wait. The guard of table_mut() lives
\* across a wait only in the if-let of destroy and of destroy_all, whose
\* block locks the swap chain it has removed; every other use of the table
\* takes and drops its guard within one step.
holds_table_through_create(p) ==
    p \in {"destroy_chain", "destroy_all_chain",
           "create_attached_swap_chain", "create_detached_swap_chain"}

\* The positions of a registry call at which the thread holds the write
\* guard of the table.
holds_table(p) == p \in {"destroy_chain", "destroy_all_chain"}

\* RwLock::read and RwLock::write return once no thread holds the write
\* guard (read guards never outlive a step).
TableFree == \A t \in Threads : ~holds_table(pc[t])

\* The thread of context c goes to a position of its call, or returns from
\* it; what the call returns is not kept.
Into(c, to, id) ==
    /\ pc' = [pc EXCEPT ![c] = to]
    /\ cur' = [cur EXCEPT ![c] = id]
    /\ UNCHANGED ret

Back(c) == Into(c, "idle", None)

\* The handle a registry call has taken out of the table.
Removed(p, ch) == [Idle EXCEPT !.op = p, !.self = ch]

\* SwapChainsAPI::get: one read of the table; the caller keeps the clone.
GetBegin(c, id) ==
    /\ Free(c)
    /\ Into(c, "get", id)
    /\ UNCHANGED <<chainVars, table, ids, ids_lock, todo, listed, lockVars>>

GetEnd(c) ==
    /\ pc[c] = "get"
    /\ TableFree
    /\ Back(c)
    /\ UNCHANGED <<chainVars, table, ids, ids_lock, todo, listed, lockVars>>

\* destroy up to the call of swap_chain.destroy: self.table_mut().remove(&id).
DestroyRemove(c, id) ==
    /\ Free(c)
    /\ TableFree
    /\ IF id \in DOMAIN table
       THEN /\ table' = remove(table, id)
            /\ at' = [at EXCEPT ![c] = Removed("destroy_chain", table[id])]
            /\ Into(c, "destroy_chain", id)
       ELSE /\ Into(c, "destroy", id)
            /\ UNCHANGED <<table, at>>
    /\ UNCHANGED <<chainVars, ids, ids_lock, todo, listed, mutex>>

\* swap_chain.destroy(device, context)? inside the if-let of destroy: the
\* swap chain's lock is taken under the write guard of the table, and other
\* threads may hold clones of the handle, so the SwapChainData lives on.
DestroyChain(c) ==
    /\ pc[c] = "destroy_chain"
    /\ mutex_free(at[c].self)
    /\ LET w == destroy(World, NoFault, c, at[c].self)
       IN /\ Commit(w)
          /\ IF w.res = "Ok" THEN Into(c, "destroy", cur[c]) ELSE Back(c)
    /\ at' = [at EXCEPT ![c] = Idle]
    /\ UNCHANGED <<held, table, ids, ids_lock, todo, listed, mutex>>

\* One turn of the loop of destroy_all up to swap_chain.destroy.
DestroyAllRemove(c) ==
    /\ pc[c] = "destroy_all"
    /\ TableFree
    /\ \E id \in todo[c] :
          /\ todo' = [todo EXCEPT ![c] = @ \ {id}]
          /\ IF id \in DOMAIN table
             THEN /\ table' = remove(table, id)
                  /\ at' = [at EXCEPT ![c] = Removed("destroy_all_chain", table[id])]
                  /\ Into(c, "destroy_all_chain", None)
             ELSE UNCHANGED <<table, at, pc, cur, ret>>
    /\ UNCHANGED <<chainVars, ids, ids_lock, listed, mutex>>

\* swap_chain.destroy(device, context)? inside the loop: an error ends the
\* call, and the guards of the table and of the index are dropped.
DestroyAllChain(c) ==
    /\ pc[c] = "destroy_all_chain"
    /\ mutex_free(at[c].self)
    /\ LET w == destroy(World, NoFault, c, at[c].self)
       IN /\ Commit(w)
          /\ IF w.res = "Ok"
             THEN /\ Into(c, "destroy_all", None)
                  /\ UNCHANGED <<todo, ids_lock>>
             ELSE /\ todo' = [todo EXCEPT ![c] = {}]
                  /\ ids_lock' = None
                  /\ Back(c)
    /\ at' = [at EXCEPT ![c] = Idle]
    /\ UNCHANGED <<held, table, ids, listed, mutex>>

\* The caller walks the iterator it was given and drops it.
IterConsumed(c) ==
    /\ pc[c] = "iter"
    /\ todo[c] = {}
    /\ ids_lock' = None
    /\ listed' = [listed EXCEPT ![c] = << >>]
    /\ Back(c)
    /\ UNCHANGED <<chainVars, table, ids, todo, lockVars>>

\* The steps of the other registry calls, as SwapChains runs them when the
\* table may be locked by another thread.
CreateAttachedTable(c, id) ==
    /\ Free(c)
    /\ TableFree
    /\ Occupied(World, id) \/ MayCreate(c)
    /\ LET w == create_attached_swap_chain(World, c, id, FreeChain)
       IN /\ CommitTable(w)
          /\ IF w.res = "" THEN Into(c, "create_attached_swap_chain", id) ELSE Back(c)
    /\ UNCHANGED <<held, ids, ids_lock, todo, listed, lockVars>>

CreateDetachedTable(c, id, size) ==
    /\ Free(c)
    /\ TableFree
    /\ Occupied(World, id) \/ MayCreate(c)
    /\ LET w == create_detached_swap_chain(World, NoFault, c, id, size, FreeChain)
       IN /\ CommitTable(w)
          /\ IF w.res = "" THEN Into(c, "create_detached_swap_chain", id) ELSE Back(c)
    /\ UNCHANGED <<held, ids, ids_lock, todo, listed, lockVars>>

IndexInsert(c) ==
    /\ pc[c] \in {"create_attached_swap_chain", "create_detached_swap_chain"}
    /\ ids_lock = None
    /\ ids' = ids_insert(World, c, cur[c]).ids
    /\ Back(c)
    /\ UNCHANGED <<chainVars, table, ids_lock, todo, listed, lockVars>>

IndexRemove(c) ==
    /\ pc[c] = "destroy"
    /\ ids_lock = None
    /\ ids' = ids_remove(World, c, cur[c]).ids
    /\ Back(c)
    /\ UNCHANGED <<chainVars, table, ids_lock, todo, listed, lockVars>>

DestroyAllLock(c) ==
    /\ Free(c)
    /\ ids_lock = None
    /\ IF c \in DOMAIN ids
       THEN /\ ids' = remove(ids, c)
            /\ todo' = [todo EXCEPT ![c] = ids[c]]
            /\ ids_lock' = c
            /\ Into(c, "destroy_all", None)
       ELSE /\ Into(c, "destroy_all_none", None)
            /\ UNCHANGED <<ids, todo, ids_lock>>
    /\ UNCHANGED <<chainVars, table, listed, lockVars>>

DestroyAllUnlock(c) ==
    /\ \/ pc[c] = "destroy_all" /\ todo[c] = {} /\ ids_lock' = None
       \/ pc[c] = "destroy_all_none" /\ UNCHANGED ids_lock
    /\ Back(c)
    /\ UNCHANGED <<chainVars, table, ids, todo, listed, lockVars>>

IterLock(c) ==
    /\ Free(c)
    /\ ids_lock = None
    /\ ids_lock' = c
    /\ todo' = [todo EXCEPT ![c] = IF c \in DOMAIN ids THEN ids[c] ELSE {}]
    /\ Into(c, "iter", None)
    /\ UNCHANGED <<chainVars, table, ids, listed, lockVars>>

IterRead(c) ==
    /\ pc[c] = "iter"
    /\ TableFree
    /\ \E id \in todo[c] :
          /\ listed' = [listed EXCEPT ![c] = iter_filter_map(@, table, id)]
          /\ todo' = [todo EXCEPT ![c] = @ \ {id}]
    /\ UNCHANGED <<chainVars, table, ids, ids_lock, pc, cur, ret, lockVars>>

\* ---------------------------------------------------------------- specifications
NoCall == [op |-> "", res |-> ""]

\* Every context starts with a surface bound to it (SwapChain::create_attached
\* reads its size); no swap chain exists and the registry is empty.
Init ==
    /\ chain = [ch \in ChainObjs |-> NoChain]
    /\ bound = [c \in Contexts |-> c]
    /\ live = Contexts
    /\ nsurf = Cardinality(Contexts)
    /\ ssize = [s \in Surfaces |-> IF s \in Contexts THEN SmallSize ELSE NoSize]
    /\ held = {}
    /\ table = << >>
    /\ ids = << >>
    /\ ids_lock = None
    /\ pc = [c \in Contexts |-> "idle"]
    /\ cur = [c \in Contexts |-> None]
    /\ todo = [c \in Contexts |-> {}]
    /\ ret = [c \in Contexts |-> NoCall]
    /\ listed = [c \in Contexts |-> << >>]
    /\ mutex = [ch \in ChainObjs |-> None]
    /\ at = [t \in Threads |-> Idle]

\* The calls a thread makes with context c on swap chain handles it holds.
ChainCall(c, F) ==
    \/ CreateAttached(c)
    \/ \E size \in ValidSizes : CreateDetached(c, size, F)
    \/ \E ch \in Constructed : SwapBuffers(c, ch, F)
    \/ \E self, other \in Constructed : TakeAttachmentFrom(c, self, other, F)
    \/ \E ch \in Constructed, size \in InputSizes : Resize(c, ch, size, F)
    \/ \E ch \in Constructed : ClearSurface(c, ch, F)
    \/ \E ch \in Constructed : Destroy(c, ch, F)

ConsumerCall ==
    \/ \E ch \in Constructed : TakeSurface(ch)
    \/ \E ch \in Constructed, surface \in held : RecycleSurface(ch, surface)

\* Swap chains used directly through their handles; device calls may fail.
Next ==
    \/ \E c \in Contexts : ChainCall(c, Faults)
    \/ ConsumerCall

Spec == Init /\ [][Next]_vars

\* The same calls when no device call ever fails.
NextNoFail ==
    \/ \E c \in Contexts : ChainCall(c, {NoFault})
    \/ ConsumerCall

SpecNoFail == Init /\ [][NextNoFail]_vars

\* The calls and steps of the thread that uses context c on the registry.
\* The registry never looks at a size, so detached chains get one size here.
RegistryCall(c, F) ==
    \/ \E id \in Ids : CreateAttachedSwapChain(c, id)
    \/ \E id \in Ids : CreateDetachedSwapChain(c, id, SmallSize, F)
    \/ CreateIndex(c)
    \/ \E id \in Ids : DestroySwapChain(c, id, F)
    \/ DestroyIndex(c)
    \/ DestroyAllBegin(c)
    \/ DestroyAllNext(c, F)
    \/ DestroyAllEnd(c)

\* Swap chains created and destroyed through the registry by one thread per
\* context; device calls may fail.
NextRegistry == \E c \in Contexts : RegistryCall(c, Faults)

SpecRegistry == Init /\ [][NextRegistry]_vars

\* The calls a thread makes on the handles it holds, a step per lock.
LockedCall(t) ==
    \/ \E ch \in Constructed : Lock(t, "swap_buffers", ch, NoSize, None)
    \/ \E ch \in Constructed, size \in ValidSizes : Lock(t, "resize", ch, size, None)
    \/ \E self, other \in Constructed : LockFirst(t, self, other)
    \/ LockSecond(t)
    \/ Relock(t)
    \/ SwapBuffersLocked(t)
    \/ ResizeLocked(t)
    \/ TakeAttachmentFromLocked(t)
    \/ \E ch \in Constructed : Lock(t, "take_surface", ch, NoSize, None)
    \/ \E ch \in Constructed, surface \in held : Lock(t, "recycle_surface", ch, NoSize, surface)
    \/ TakeSurfaceLocked(t)
    \/ RecycleSurfaceLocked(t)

\* Threads that share at most MaxShared swap chains through clones of their
\* handles; no device call fails.
NextLocked ==
    \/ \E c \in Contexts : Free(c) /\ FreeChain <= MaxShared /\ CreateAttached(c)
    \/ \E c \in Contexts :
          Free(c) /\ FreeChain <= MaxShared /\ CreateDetached(c, SmallSize, {NoFault})
    \/ \E t \in Threads : LockedCall(t)

SpecLocked == Init /\ [][NextLocked]_vars

\* Threads that walk the registry with iter while attached swap chains are
\* created and destroyed; no device call fails.
IterCall(c) ==
    \/ \E id \in Ids : CreateAttachedSwapChain(c, id)
    \/ CreateIndex(c)
    \/ \E id \in Ids : DestroySwapChain(c, id, {NoFault})
    \/ DestroyIndex(c)
    \/ DestroyAllBegin(c)
    \/ DestroyAllNext(c, {NoFault})
    \/ DestroyAllEnd(c)
    \/ IterBegin(c)
    \/ IterNext(c)
    \/ IterEnd(c)

NextIter == \E c \in Contexts : IterCall(c)

SpecIter == Init /\ [][NextIter]_vars

\* One swap chain, attached or detached, its producer and one consumer; no
\* device call fails.
NextCycled ==
    \/ \E c \in Contexts : Constructed = {} /\ CreateAttached(c)
    \/ \E c \in Contexts, size \in ValidSizes :
          Constructed = {} /\ CreateDetached(c, size, {NoFault})
    \/ \E c \in Contexts, ch \in Constructed : CycledSwapBuffers(c, ch)
    \/ \E c \in Contexts, ch \in Constructed, size \in InputSizes : CycledResize(c, ch, size)
    \/ \E ch \in Constructed : CycledTakeSurface(ch)
    \/ \E ch \in Constructed, surface \in held : CycledRecycleSurface(ch, surface)

SpecCycled == Init /\ [][NextCycled]_vars

\* The surfaces and swap chain objects that the calls under way may still
\* create: a call starts only if there is room for what it may create.
Reserved == Cardinality({t \in Threads : at[t].op \in {"swap_buffers", "resize"}})
Room(n) == Objects(World) + Reserved + n <= MaxFair

\* The calls thread t starts, with its own context.
FairCall(t) ==
    \/ \E id \in Ids : GetBegin(t, id)
    \/ \E id \in Ids : Room(1) /\ CreateAttachedTable(t, id)
    \/ \E id \in Ids : Room(2) /\ CreateDetachedTable(t, id, SmallSize)
    \/ \E id \in Ids : DestroyRemove(t, id)
    \/ DestroyAllLock(t)
    \/ IterLock(t)
    \/ \E ch \in Constructed : Room(1) /\ Lock(t, "swap_buffers", ch, NoSize, None)
    \/ \E ch \in Constructed : Room(1) /\ Lock(t, "resize", ch, LargeSize, None)
    \/ \E ch \in Constructed : Lock(t, "take_surface", ch, NoSize, None)
    \/ \E ch \in Constructed, surface \in held : Lock(t, "recycle_surface", ch, NoSize, surface)
    \/ \E ch \in Constructed : Lock(t, "destroy", ch, NoSize, None)

\* The steps by which thread t goes on with the call it is inside.
FairStep(t) ==
    \/ GetEnd(t)
    \/ IndexInsert(t)
    \/ DestroyChain(t)
    \/ IndexRemove(t)
    \/ DestroyAllRemove(t)
    \/ DestroyAllChain(t)
    \/ DestroyAllUnlock(t)
    \/ IterRead(t)
    \/ IterConsumed(t)
    \/ SwapBuffersLocked(t)
    \/ ResizeLocked(t)
    \/ TakeSurfaceLocked(t)
    \/ RecycleSurfaceLocked(t)
    \/ DestroyLocked(t)

NextFair == \E t \in Threads : FairCall(t) \/ FairStep(t)

\* Threads that use the registry and the swap chains at once, a step per
\* lock; no device call fails. A thread that can take a step again and
\* again does take one.
SpecFair == Init /\ [][NextFair]_vars /\ \A t \in Threads : SF_vars(FairStep(t))

\* ---------------------------------------------------------------- properties
\* What a locker of the chain can observe of it.
Observed(w, ch) ==
    [size |-> w.chain[ch].size,
     is_attached |-> w.chain[ch].unattached_surface = None,
     unattached_surface |-> w.chain[ch].unattached_surface,
     pending_surface |-> w.chain[ch].pending_surface,
     recycled_surfaces |-> w.chain[ch].recycled_surfaces]

\* The state a call starts from, once an earlier call has returned w.
Then(w) ==
    [w EXCEPT !.calls = ZeroCalls, !.ok = TRUE, !.ret = None, !.res = "", !.err = ""]

Live == {ch \in ChainObjs : chain[ch].status = "live"}
Detached(ch) == chain[ch].unattached_surface # None
SameContext(c, a, b) ==
    a # b /\ chain[a].context_id = c /\ chain[b].context_id = c

\* The results of every producer call that context c can make with chain ch
\* in one of the roles, whatever device call is set to fail.
ProducerCalls(c, ch) ==
    UNION {{swap_buffers(World, f, c, ch), destroy(World, f, c, ch),
            clear_surface(World, f, c, ch)}
              \cup {resize(World, f, c, ch, size) : size \in InputSizes}
              \cup {take_attachment_from(World, f, c, ch, o) : o \in Constructed \ {ch}}
              \cup {take_attachment_from(World, f, c, o, ch) : o \in Constructed \ {ch}}
           : f \in Faults}

\* C1: a producer call (swap_buffers, resize, take_attachment_from in either
\* role, destroy, clear_surface) made with a context other than the chain's
\* context_id returns IncompatibleContext, makes no device call, and leaves
\* every chain, every context's bound surface and the live surfaces as they were.
C1_ContextMismatch ==
    \A c \in Contexts, ch \in Constructed :
        chain[ch].context_id # c =>
            \A r \in ProducerCalls(c, ch) :
                /\ r.res = "IncompatibleContext"
                /\ r.calls = ZeroCalls
                /\ r.chain = chain
                /\ r.bound = bound
                /\ r.live = live
                /\ r.nsurf = nsurf

\* A chain that holds an unattached surface, a pending front buffer and a
\* pooled surface is called with the other context.
C1_Witness ==
    \E c \in Contexts, ch \in Live :
        /\ chain[ch].context_id # c
        /\ Detached(ch)
        /\ chain[ch].pending_surface # None
        /\ chain[ch].recycled_surfaces # <<>>
        /\ swap_buffers(World, NoFault, c, ch).res = "IncompatibleContext"
        /\ resize(World, NoFault, c, ch, LargeSize).res = "IncompatibleContext"
        /\ destroy(World, NoFault, c, ch).res = "IncompatibleContext"

C3_PreconditionFailure ==
    \A c \in Contexts, a \in Constructed, b \in Constructed :
        SameContext(c, a, b) /\ ~(Detached(a) /\ ~Detached(b)) =>
            LET r == take_attachment_from(World, NoFault, c, a, b)
            IN /\ r.res = "Failed"
               /\ r.chain = chain
               /\ r.bound = bound
               /\ r.live = live

\* A surface of the size a swap of ch asks for is in ch's pool once the
\* pending front buffer has been moved there.
Pooled(ch) ==
    {chain[ch].recycled_surfaces[i] : i \in 1..Len(chain[ch].recycled_surfaces)}
        \cup ({chain[ch].pending_surface} \ {None})
Reusable(ch) == {s \in Pooled(ch) : ssize[s] = chain[ch].size}

\* The back buffer of ch in w: its unattached surface, or for an attached
\* chain the surface bound to its context.
BackBuffer(w, ch) ==
    IF w.chain[ch].unattached_surface # None
    THEN w.chain[ch].unattached_surface
    ELSE w.bound[w.chain[ch].context_id]

\* swap, take_surface, recycle_surface of what was taken, swap again.
SwapTakeRecycleSwap(c, ch) ==
    LET r1 == swap_buffers(World, NoFault, c, ch)
        r2 == take_surface(Then(r1), ch)
        r3 == recycle_surface(Then(r2), ch, r2.ret)
        r4 == swap_buffers(Then(r3), NoFault, c, ch)
    IN [first |-> r1, taken |-> r2.ret, second |-> r4]

\* The first sentence of C4: swap_buffers creates a surface only when no pooled
\* surface, the pending front buffer included, has the chain's size; otherwise
\* it creates none and the new back buffer is a pooled surface of that size.
C4_AllocateOnlyWhenNoMatch ==
    \A ch \in Constructed, f \in Faults :
        LET c == chain[ch].context_id
            r == swap_buffers(World, f, c, ch)
        IN /\ Reusable(ch) = {} => r.calls.create = 1
           /\ Reusable(ch) # {} =>
                /\ r.calls.create = 0
                /\ r.nsurf = nsurf
                /\ r.res = "Ok" => BackBuffer(r, ch) \in Reusable(ch)

\* C4: swap_buffers creates a surface only when no pooled surface has the
\* chain's size and reuses one otherwise; in particular, for a detached chain, swap_buffers, take_surface,
\* recycle_surface of the taken surface and swap_buffers again: the second
\* swap creates no surface and the recycled surface is the back buffer.
C4_SecondSwapReuses ==
    \A ch \in Live :
        Detached(ch) =>
            LET r == SwapTakeRecycleSwap(chain[ch].context_id, ch)
            IN r.first.res = "Ok" =>
                  /\ r.taken # None
                  /\ r.second.res = "Ok"
                  /\ r.second.calls.create = 0
                  /\ r.second.chain[ch].unattached_surface = r.taken

C3_Witness ==
    \E c \in Contexts, a \in Live, b \in Live :
        /\ SameContext(c, a, b)
        /\ Detached(a) /\ Detached(b)
        /\ LET r == take_attachment_from(World, NoFault, c, a, b)
           IN /\ r.res = "Failed"
              /\ r.chain[a].unattached_surface = None
              /\ chain[a].unattached_surface \in r.live

\* C4's failing case: a detached chain whose unattached surface is not of
\* the chain's size.
C4_SizeMismatch ==
    \E ch \in Live :
        /\ Detached(ch)
        /\ ssize[chain[ch].unattached_surface] # chain[ch].size
        /\ SwapTakeRecycleSwap(chain[ch].context_id, ch).second.calls.create = 1

\* C6: create_attached_swap_chain and create_detached_swap_chain given an id
\* that is a key of the table return Failed, make no device call and leave
\* the table, the index and every swap chain as they were, from whichever
\* context and whatever the other threads are in the middle of; given an id
\* that is not a key, the creation is not refused for the id and the new
\* swap chain is what the table holds under it. (A creation makes at most
\* one device call, the create_surface of create_detached.)
C6_DuplicateId ==
    \A c \in Contexts, id \in Ids, size \in ValidSizes,
       f \in {NoFault, [NoFault EXCEPT !.create = 1]} :
        LET att == create_attached_swap_chain(World, c, id, FreeChain)
            det == create_detached_swap_chain(World, f, c, id, size, FreeChain)
        IN /\ id \in DOMAIN table =>
                \A r \in {att, det} :
                    /\ r.res = "Failed"
                    /\ r.calls = ZeroCalls
                    /\ r.table = table /\ r.ids = ids
                    /\ r.chain = chain /\ r.bound = bound
                    /\ r.live = live /\ r.nsurf = nsurf
           /\ id \notin DOMAIN table /\ FreeChain \in ChainObjs =>
                \A r \in {att, det} :
                    /\ r.res # "Failed"
                    /\ r.res = "" => r.table[id] = FreeChain /\ r.ids = ids
                    /\ \A other \in DOMAIN table : r.table[other] = table[other]

\* A thread has been refused an id that another thread is in the middle of
\* creating: the entry is in the table and not yet in the index.
C6_Witness ==
    \E c \in Contexts, d \in Contexts, id \in Ids :
        /\ c # d
        /\ pc[c] = "create_detached_swap_chain" /\ cur[c] = id
        /\ id \in DOMAIN table
        /\ pc[d] = "idle"
        /\ ret[d] = [op |-> "create_attached_swap_chain", res |-> "Failed"]
        /\ create_attached_swap_chain(World, d, id, FreeChain).res = "Failed"

\* C7: once destroy_all(context) has returned, no id of a swap chain of that
\* context is a key of the table (get returns none for it) and the context
\* has no entry in the index.
C7_DestroyAllRemovesAll ==
    \A c \in Contexts :
        pc[c] = "idle" /\ ret[c].op = "destroy_all" =>
            /\ c \notin DOMAIN ids
            /\ \A id \in Ids : get(id) # None => chain[get(id)].context_id # c

\* C7's failing case: destroy_all has returned an error and a swap chain of
\* the context is still in the table, with no index entry leading to it.
C7_Witness ==
    \E c \in Contexts, id \in Ids :
        /\ pc[c] = "idle"
        /\ ret[c] = [op |-> "destroy_all", res |-> "BackendError"]
        /\ c \notin DOMAIN ids
        /\ get(id) # None
        /\ chain[get(id)].context_id = c

\* The slots that hold surface s.
Places(s) ==
    {<<"unattached_surface", ch, 0>> : ch \in {x \in ChainObjs : chain[x].unattached_surface = s}}
        \cup {<<"pending_surface", ch, 0>> : ch \in {x \in ChainObjs : chain[x].pending_surface = s}}
        \cup UNION {{<<"recycled_surfaces", ch, i>> :
                        i \in {j \in 1..Len(chain[ch].recycled_surfaces) :
                                  chain[ch].recycled_surfaces[j] = s}} : ch \in ChainObjs}
        \cup {<<"bound", c, 0>> : c \in {x \in Contexts : bound[x] = s}}
        \cup (IF s \in held THEN {<<"consumer", 0, 0>>} ELSE {})

\* C8: every surface created and not destroyed is held in exactly one place:
\* a chain's unattached slot, a context's bound slot, a chain's pending slot,
\* a chain's recycle pool, or a consumer.
C8_HeldInOnePlace == \A s \in live : Cardinality(Places(s)) = 1

\* C8's failing case: a surface that no call has destroyed is in no place.
C8_Witness == \E s \in live : Places(s) = {}

\* C9: a live swap chain either stores an unattached surface or its context
\* has a surface bound: is_attached() implies that the context holds a bound
\* surface.
C9_AttachedOrUnattached ==
    \A ch \in Live :
        SwapChain_is_attached(ch) => bound[chain[ch].context_id] # None

\* C9's failing case: a live chain reports attached and its context has no
\* surface.
C9_Witness ==
    \E ch \in Live :
        /\ SwapChain_is_attached(ch)
        /\ bound[chain[ch].context_id] = None
        /\ chain[ch].pending_surface = None

\* The results of the mutating calls context c can make with chain ch when
\* the device fails as f says.
MutatingCalls(c, ch, f) ==
    {swap_buffers(World, f, c, ch), destroy(World, f, c, ch)}
        \cup {resize(World, f, c, ch, size) : size \in InputSizes}
        \cup {take_attachment_from(World, f, c, ch, o) : o \in Constructed \ {ch}}
        \cup {take_attachment_from(World, f, c, o, ch) : o \in Constructed \ {ch}}

Errors == {"IncompatibleContext", "Failed", "BackendError"}

\* C10: when swap_buffers, resize, take_attachment_from or destroy returns an
\* error, every chain's size, is_attached(), back buffer, pending front
\* buffer and recycle pool, and the surface bound to each context, are what
\* they were before the call.
C10_AllOrNothing ==
    \A c \in Contexts, ch \in Live, f \in Faults :
        \A r \in MutatingCalls(c, ch, f) :
            r.res \in Errors =>
                /\ \A x \in Constructed : Observed(r, x) = Observed(World, x)
                /\ r.bound = bound

\* C10's failing case: a swap_buffers whose bind fails returns the error with
\* the pending front buffer moved to the pool and the context left without
\* a surface.
C10_Witness ==
    \E ch \in Live, f \in Faults :
        LET r == swap_buffers(World, f, chain[ch].context_id, ch)
        IN /\ r.res = "BackendError"
           /\ chain[ch].pending_surface # None
           /\ r.chain[ch].pending_surface = None
           /\ bound[chain[ch].context_id] # None
           /\ r.bound[chain[ch].context_id] = None

\* No thread is inside a registry call.
Quiescent == \A c \in Contexts : pc[c] = "idle"

Indexed(c, id) == c \in DOMAIN ids /\ id \in ids[c]
InTableOf(c, id) == id \in DOMAIN table /\ chain[table[id]].context_id = c

\* C11: whenever no registry call is in progress, an id is a key of the table
\* mapped to a chain of context c if and only if it is in the index of c.
C11_TableIndexAgree ==
    Quiescent => \A c \in Contexts, id \in Ids : InTableOf(c, id) <=> Indexed(c, id)

\* C11's failing case: no call is in progress, every call so far has been
\* made without a device failure, and the index of a context lists an id
\* that the table no longer holds.
C11_Witness ==
    /\ Quiescent
    /\ \E c \in Contexts, id \in Ids : Indexed(c, id) /\ id \notin DOMAIN table
    /\ live = Contexts

\* Threads t and u are each inside take_attachment_from with one lock()
\* returned, and each is at the lock() of the swap chain the other has locked.
Crossed(t, u) ==
    /\ t # u
    /\ at[t].op = "take_attachment_from" /\ Len(at[t].has) = 1
    /\ at[u].op = "take_attachment_from" /\ Len(at[u].has) = 1
    /\ Holds(u, Needed(at[t])[2])
    /\ Holds(t, Needed(at[u])[2])

\* C12: a thread inside take_attachment_from locks self first and other
\* second; and two threads that run it with the roles of two swap chains
\* reversed, each with its first lock taken, are stuck: the Mutex either one
\* waits for is held by the other and no step of either is possible.
C12_SelfThenOther ==
    /\ \A t \in Threads :
          at[t].op = "take_attachment_from" /\ at[t].has # << >> => at[t].has[1] = at[t].self
    /\ \A t, u \in Threads :
          Crossed(t, u) =>
             /\ at[t].self = at[u].other /\ at[t].other = at[u].self
             /\ mutex[at[t].other] = u /\ mutex[at[u].other] = t
             /\ ~ENABLED (LockedCall(t) \/ LockedCall(u))

\* C12's case: the deadlock of take_attachment_from(A, B) and (B, A).
C12_Witness ==
    \E t, u \in Threads :
       /\ Crossed(t, u)
       /\ at[t].self # at[t].other
       /\ mutex[at[t].self] = t /\ mutex[at[u].self] = u

\* Thread t is inside a call and no other thread is.
Alone(t) == at[t] # Idle /\ \A u \in Threads \ {t} : at[u] = Idle

\* Thread t is at the second lock() of take_attachment_from and holds that
\* Mutex itself.
SelfBlocked(t) ==
    /\ at[t].op = "take_attachment_from"
    /\ Len(at[t].has) = 1
    /\ Holds(t, Needed(at[t])[2])

\* C13: a call made while no other thread is inside a call runs on to its
\* return: the thread is never at a lock() of a Mutex it holds itself, and no
\* call ends in a panic instead of a result.
C13_SoloCallsReturn ==
    \A t \in Threads :
       /\ Alone(t) => ~SelfBlocked(t)
       /\ at[t] # Panicked

\* C13's failing case: take_attachment_from(A, A') with A' a clone of A, by
\* the only thread inside a call, after self.lock() has returned.
C13_Witness ==
    \E t \in Threads :
       /\ Alone(t)
       /\ SelfBlocked(t)
       /\ at[t].self = at[t].other
       /\ mutex[at[t].self] = t

\* The swap chains of context c that have not been destroyed and report
\* is_attached() = true.
AttachedTo(c) == {ch \in Live : chain[ch].context_id = c /\ SwapChain_is_attached(ch)}

\* C14: every context has at most one swap chain that reports is_attached(),
\* and the back buffer of that swap chain is the live surface bound to the
\* context.
C14_OneAttachedPerContext ==
    \A c \in Contexts :
       /\ Cardinality(AttachedTo(c)) <= 1
       /\ \A ch \in AttachedTo(c) :
             BackBuffer(World, ch) = bound[c] /\ bound[c] \in live

\* C14's failing case: two swap chains of one context, neither destroyed, both
\* report is_attached() after calls that all returned Ok.
C14_Witness ==
    \E c \in Contexts : \E a, b \in AttachedTo(c) : a # b /\ bound[c] \in live

\* The surfaces a swap chain holds in its three slots, and how many entries
\* the slots have.
Slots(w, ch) ==
    ({w.chain[ch].unattached_surface, w.chain[ch].pending_surface} \ {None})
        \cup {w.chain[ch].recycled_surfaces[i] : i \in 1..Len(w.chain[ch].recycled_surfaces)}

SlotCount(w, ch) ==
    (IF w.chain[ch].unattached_surface # None THEN 1 ELSE 0)
        + (IF w.chain[ch].pending_surface # None THEN 1 ELSE 0)
        + Len(w.chain[ch].recycled_surfaces)

\* C15: a destroy by the producer context in which no device call fails
\* returns Ok, makes one backend destroy call for each of the unattached, the
\* pending and the pooled surfaces (all distinct, all live before and none
\* after) and leaves the three slots empty; a second destroy right after it
\* returns Ok, makes no backend destroy call and changes nothing.
C15_DestroyThenNoOp ==
    \A ch \in Constructed :
       LET c == chain[ch].context_id
           w1 == destroy(World, NoFault, c, ch)
           w2 == destroy(Then(w1), NoFault, c, ch)
       IN /\ w1.res = "Ok"
          /\ w1.calls.destroy = SlotCount(World, ch)
          /\ Cardinality(Slots(World, ch)) = SlotCount(World, ch)
          /\ Slots(World, ch) \subseteq live
          /\ w1.live = live \ Slots(World, ch)
          /\ SlotCount(w1, ch) = 0
          /\ w2.res = "Ok"
          /\ w2.calls.destroy = 0
          /\ w2.live = w1.live /\ w2.chain = w1.chain /\ w2.bound = w1.bound

\* C15's case: a swap chain that holds an unattached, a pending and a pooled
\* surface at once.
C15_Witness ==
    \E ch \in Live :
       /\ chain[ch].unattached_surface # None
       /\ chain[ch].pending_surface # None
       /\ chain[ch].recycled_surfaces # << >>
       /\ destroy(World, NoFault, chain[ch].context_id, ch).calls.destroy = 3

\* C16: destroy(id) by the producer context c of the swap chain under id,
\* when it returns Ok, leaves no entry under id, has destroyed every surface
\* the swap chain held and has taken id out of the index of c; destroy(id)
\* of an id that is not in the table returns Ok, makes no destroy call and
\* leaves the table and every surface as they were.
C16_DestroyById ==
    \A id \in Ids :
       /\ \A c \in Contexts, f \in {NoFault, [NoFault EXCEPT !.destroy = 1]} :
             LET w == SwapChains_destroy(World, f, c, id)
             IN id \in DOMAIN table /\ chain[table[id]].context_id = c /\ w.res = "Ok" =>
                   /\ id \notin DOMAIN w.table
                   /\ Slots(World, table[id]) \cap w.live = {}
                   /\ w.calls.destroy = SlotCount(World, table[id])
                   /\ c \in DOMAIN w.ids => id \notin w.ids[c]
       /\ \A c \in Contexts :
             LET w == SwapChains_destroy(World, NoFault, c, id)
             IN id \notin DOMAIN table =>
                   /\ w.res = "Ok"
                   /\ w.calls.destroy = 0
                   /\ w.table = table /\ w.live = live /\ w.chain = chain

\* C16's cases: an id in the table and in the index of its context, whose
\* swap chain holds a surface, and an id that is not in the table.
C16_Witness ==
    \E id, other \in Ids :
       /\ id \in DOMAIN table
       /\ Indexed(chain[table[id]].context_id, id)
       /\ Slots(World, table[id]) # {}
       /\ SwapChains_destroy(World, NoFault, chain[table[id]].context_id, id).res = "Ok"
       /\ other \notin DOMAIN table

\* C17: destroy(id) with a context that is not the producer context of the
\* swap chain under id returns IncompatibleContext and changes nothing: the
\* entry is still in the table, the index is what it was and no surface has
\* been destroyed.
C17_WrongContextDestroy ==
    \A id \in DOMAIN table, c \in Contexts :
       LET w == SwapChains_destroy(World, NoFault, c, id)
       IN chain[table[id]].context_id # c =>
             /\ w.res = "IncompatibleContext"
             /\ w.table = table
             /\ w.ids = ids
             /\ w.live = live
             /\ w.calls.destroy = 0

\* C17's failing case: a destroy that returned IncompatibleContext has taken
\* the entry of another context's swap chain out of the table; that context
\* still lists the id and its surfaces are all live.
C17_Witness ==
    \E c \in Contexts, id \in Ids :
       /\ ret[c] = [op |-> "destroy", res |-> "IncompatibleContext"]
       /\ id \notin DOMAIN table
       /\ \E o \in Contexts \ {c} : Indexed(o, id)
       /\ live = 1..nsurf

\* The device fails the bind of take_attachment_from and nothing else.
BindFails == [NoFault EXCEPT !.bind = 1]

\* take_attachment_from(self, other) by context c passes the validation and
\* the precondition: self is detached, other is attached, both are of c.
MayTakeAttachment(c, self, other) ==
    /\ SameContext(c, self, other)
    /\ Detached(self)
    /\ ~Detached(other)
    /\ bound[c] # None

\* C18: when take_attachment_from passes the validation and the
\* precondition and the bind fails, the surface that was being attached is
\* destroyed, the error of the bind is returned, other is still attached with
\* its pending surface and pool unchanged, and the surface that was bound to
\* the context before the call is still bound to it.
C18_BindFailure ==
    \A c \in Contexts, self, other \in Constructed :
       LET w == take_attachment_from(World, BindFails, c, self, other)
       IN MayTakeAttachment(c, self, other) =>
             /\ w.res = "BackendError"
             /\ chain[self].unattached_surface \notin w.live
             /\ Observed(w, other) = Observed(World, other)
             /\ w.bound[c] = bound[c]

\* C18's failing case: the call fails in the bind as described, and the
\* context is left with no surface bound while the surface it had is live and
\* in no slot of either swap chain.
C18_Witness ==
    \E c \in Contexts, self, other \in Live :
       LET w == take_attachment_from(World, BindFails, c, self, other)
       IN /\ MayTakeAttachment(c, self, other)
          /\ w.res = "BackendError"
          /\ w.calls.bind = 1 /\ w.calls.failed = 1
          /\ chain[self].unattached_surface \notin w.live
          /\ Observed(w, other) = Observed(World, other)
          /\ w.bound[c] = None
          /\ bound[c] \in w.live
          /\ bound[c] \notin Slots(w, self) \cup Slots(w, other)

\* The threads between the return of lock() on swap chain ch and the drop of
\* its guard.
Inside(ch) == {t \in Threads : Holds(t, ch)}

\* C19: at most one thread is between lock() and unlock of a swap chain, and
\* while it is there the SwapChainData is what the thread found when lock()
\* returned: no other thread's call changes it. Every producer or consumer
\* call thus takes effect in the one step that runs its SwapChainData method,
\* and the calls are ordered as those steps are.
C19_OneThreadInside ==
    \A ch \in ChainObjs :
       /\ Cardinality(Inside(ch)) <= 1
       /\ \A t \in Inside(ch) : mutex[ch] = t /\ at[t].seen[ch] = chain[ch]

\* C19's case: the producer is inside swap_buffers or resize on a swap chain
\* with a pending front buffer while a consumer, which holds a surface it took
\* from it earlier, is kept out of take_surface and recycle_surface.
C19_Witness ==
    \E t \in Threads, ch \in Live :
       /\ at[t].op \in {"swap_buffers", "resize"}
       /\ Inside(ch) = {t}
       /\ chain[ch].context_id = t
       /\ chain[ch].pending_surface # None
       /\ held # {}
       /\ \E u \in Threads \ {t} :
             /\ Free(u)
             /\ ~ENABLED Lock(u, "take_surface", ch, NoSize, None)

\* Thread c holds the mutex of the index and its next step takes the write
\* lock of the table and destroys a swap chain under both.
DestroysUnderIndexLock(c) ==
    /\ ids_lock = c
    /\ \E id \in todo[c] : id \in DOMAIN table
    /\ ENABLED DestroyAllNext(c, {NoFault})

\* C20: a thread that holds a lock of the registry neither goes on to take
\* another lock nor destroys a swap chain while it holds it: each lock is
\* held for one update of its map.
C20_OneLockOneUpdate == \A c \in Contexts : ~DestroysUnderIndexLock(c)

\* C20's failing case: destroy_all holds the mutex of the index with a swap
\* chain still to remove and destroy, and the thread of another context, whose
\* creation has updated the table, cannot get at the index.
C20_Witness ==
    \E c \in Contexts, o \in Contexts :
       /\ DestroysUnderIndexLock(c)
       /\ pc[c] = "destroy_all"
       /\ pc[o] \in {"create_attached_swap_chain", "create_detached_swap_chain"}
       /\ ~ENABLED CreateIndex(o)

\* C21: take_surface makes no device call and always returns; it hands out
\* the pending front buffer and empties that slot, or else the last surface
\* of the pool and shortens the pool by it, or else nothing and changes
\* nothing. Size, unattached surface, context binding, live surfaces and
\* every other swap chain are left as they were.
C21_TakeSurface ==
    \A ch \in Constructed :
       LET w == take_surface(World, ch)
           pending == chain[ch].pending_surface
           pool == chain[ch].recycled_surfaces
       IN /\ w.res = "Ok"
          /\ w.calls = ZeroCalls
          /\ pending # None =>
                /\ w.ret = pending
                /\ w.chain[ch].pending_surface = None
                /\ w.chain[ch].recycled_surfaces = pool
          /\ pending = None /\ pool # << >> =>
                /\ w.ret = pool[Len(pool)]
                /\ w.chain[ch].pending_surface = None
                /\ w.chain[ch].recycled_surfaces = SubSeq(pool, 1, Len(pool) - 1)
          /\ pending = None /\ pool = << >> => w.ret = None /\ w.chain = chain
          /\ w.chain[ch].size = chain[ch].size
          /\ w.chain[ch].unattached_surface = chain[ch].unattached_surface
          /\ w.chain[ch].context_id = chain[ch].context_id
          /\ w.bound = bound /\ w.live = live
          /\ \A o \in ChainObjs \ {ch} : w.chain[o] = chain[o]

\* C21's case: take_surface on a swap chain with no pending front buffer and
\* two surfaces in its pool hands out the one recycled last.
C21_Witness ==
    \E ch \in Live :
       /\ chain[ch].pending_surface = None
       /\ Len(chain[ch].recycled_surfaces) >= 2
       /\ take_surface(World, ch).ret = chain[ch].recycled_surfaces[2]
       /\ take_surface(World, ch).ret # chain[ch].recycled_surfaces[1]

\* The surfaces of ch that were pending or pooled before a swap_buffers that
\* led to w and are not its new back buffer.
Evicted(w, ch) == Pooled(ch) \ {BackBuffer(w, ch)}

\* C22: after a swap_buffers that returns Ok the pending front buffer is the
\* back buffer of before the call, the pool is empty, and the surfaces that
\* were pending or pooled and did not become the back buffer, all live before,
\* have each been passed to one destroy call; nothing else was destroyed.
C22_SwapInstallsFront ==
    \A c \in Contexts, ch \in Constructed, f \in Faults :
       LET w == swap_buffers(World, f, c, ch)
       IN w.res = "Ok" =>
             /\ BackBuffer(World, ch) # None
             /\ w.chain[ch].pending_surface = BackBuffer(World, ch)
             /\ w.chain[ch].recycled_surfaces = << >>
             /\ Evicted(w, ch) \subseteq live
             /\ live \ w.live = Evicted(w, ch)
             /\ w.calls.destroy = Cardinality(Evicted(w, ch))

\* C22's case: a swap_buffers that returns Ok although the pool holds a
\* surface it cannot use as back buffer, which it destroys.
C22_Witness ==
    \E c \in Contexts, ch \in Live :
       LET w == swap_buffers(World, NoFault, c, ch)
       IN /\ w.res = "Ok"
          /\ chain[ch].pending_surface # None
          /\ chain[ch].recycled_surfaces # << >>
          /\ w.calls.destroy >= 1

\* The calls other than take_attachment_from and destroy that context c can
\* make on ch, whatever device call is set to fail, and the consumer calls.
OtherCalls(c, ch) ==
    UNION {{swap_buffers(World, f, c, ch), clear_surface(World, f, c, ch)}
              \cup {resize(World, f, c, ch, size) : size \in InputSizes} : f \in Faults}
        \cup {take_surface(World, ch)}
        \cup {recycle_surface(World, ch, s) : s \in held}

KeepsAttachment(w, ch) == Observed(w, ch).is_attached = Observed(World, ch).is_attached

\* C23: swap_buffers and resize, whether they return Ok or an error, leave
\* is_attached() of every swap chain as it was, and so does every call that is
\* not take_attachment_from (destroy, the way out of the state machine, set
\* aside); swap_buffers also leaves size() and every other swap chain as they
\* were.
C23_AttachmentSelfLoops ==
    \A c \in Contexts, ch \in Constructed :
       /\ \A w \in OtherCalls(c, ch) : \A o \in Constructed : KeepsAttachment(w, o)
       /\ \A f \in Faults :
             LET w == swap_buffers(World, f, c, ch)
             IN /\ w.chain[ch].size = chain[ch].size
                /\ \A o \in ChainObjs \ {ch} : w.chain[o] = chain[o]

\* The part of C23 about swap_buffers and resize alone.
C23_SwapResizeSelfLoops ==
    \A c \in Contexts, ch \in Constructed, f \in Faults :
       /\ \A o \in Constructed : KeepsAttachment(swap_buffers(World, f, c, ch), o)
       /\ \A o \in Constructed, size \in InputSizes :
             KeepsAttachment(resize(World, f, c, ch, size), o)
       /\ LET w == swap_buffers(World, f, c, ch)
          IN /\ w.chain[ch].size = chain[ch].size
             /\ \A o \in ChainObjs \ {ch} : w.chain[o] = chain[o]

\* C23's failing case: clear_surface on a detached swap chain of the calling
\* context returns an error of the device, and the swap chain, which reported
\* is_attached() = false before the call, reports true after it.
C23_Witness ==
    \E c \in Contexts, ch \in Live, f \in Faults :
       LET w == clear_surface(World, f, c, ch)
       IN /\ chain[ch].context_id = c
          /\ Detached(ch)
          /\ w.res = "BackendError"
          /\ Observed(w, ch).is_attached

\* C24: a resize to a size of at least 1 by 1 that returns Ok has made one
\* create call, for a surface of that size that did not exist before, whether
\* or not the pool holds a surface of the size; that surface is the back
\* buffer; the back buffer of before the call, live then, is the one surface
\* destroyed, by one destroy call; and size() is the requested size.
C24_ResizeAllocates ==
    \A c \in Contexts, ch \in Constructed, size \in ValidSizes, f \in Faults :
       LET w == resize(World, f, c, ch, size)
           fresh == BackBuffer(w, ch)
       IN w.res = "Ok" =>
             /\ w.calls.create = 1
             /\ fresh \notin 1..nsurf /\ fresh \in w.live
             /\ w.ssize[fresh] = size
             /\ BackBuffer(World, ch) \in live
             /\ live \ w.live = {BackBuffer(World, ch)}
             /\ w.calls.destroy = 1
             /\ w.chain[ch].size = size

\* C24's case: a resize that returns Ok while the pool holds a surface of
\* exactly the requested size.
C24_Witness ==
    \E c \in Contexts, ch \in Live, size \in ValidSizes :
       /\ resize(World, NoFault, c, ch, size).res = "Ok"
       /\ \E s \in Pooled(ch) : ssize[s] = size /\ chain[ch].pending_surface # s

\* C25: resize, whatever it returns, leaves the pending front buffer and the
\* pool as they were, so that take_surface right after it hands out the
\* surface, of the size, it would have handed out right before; and every
\* live surface a consumer holds is still live and of the same size.
C25_ResizeKeepsFront ==
    \A c \in Contexts, ch \in Constructed, size \in InputSizes, f \in Faults :
       LET w == resize(World, f, c, ch, size)
           before == take_surface(World, ch).ret
           after == take_surface(Then(w), ch).ret
       IN /\ w.chain[ch].pending_surface = chain[ch].pending_surface
          /\ w.chain[ch].recycled_surfaces = chain[ch].recycled_surfaces
          /\ after = before
          /\ before # None => w.ssize[after] = ssize[before]
          /\ \A s \in held \cap live : s \in w.live /\ w.ssize[s] = ssize[s]

\* C25's case: a resize to another size that returns Ok on a swap chain with
\* a pending front buffer of the old size, while a consumer holds a surface.
C25_Witness ==
    \E c \in Contexts, ch \in Live, size \in ValidSizes :
       /\ resize(World, NoFault, c, ch, size).res = "Ok"
       /\ size # chain[ch].size
       /\ chain[ch].pending_surface # None
       /\ ssize[chain[ch].pending_surface] = chain[ch].size
       /\ held \cap live # {}

\* The device fails the first bind of a call, and with rollback = 1 also the
\* destroy that follows it.
BindFailsThen(rollback) == [NoFault EXCEPT !.bind = 1, !.destroy = rollback]

\* swap_buffers or resize by context c on the attached swap chain ch gets
\* as far as the bind.
ReachesBind(c, ch) ==
    /\ chain[ch].context_id = c
    /\ ~Detached(ch)
    /\ bound[c] # None

\* The surface swap_buffers obtains as its new back buffer.
Provided(ch) ==
    provide_surface(recycle_front_buffer(World, ch), NoFault, ch, chain[ch].size).ret

\* The call that led to w has made one bind call and has passed the surface
\* it had obtained to one destroy call; it returns the error of the bind,
\* whether or not that destroy failed, and the surface is in no slot.
RolledBack(w, obtained, rollback) ==
    /\ w.res = "BackendError"
    /\ w.err = "bind"
    /\ w.calls.bind = 1
    /\ w.calls.destroy = 1
    /\ rollback = 0 => obtained \notin w.live
    /\ \A o \in Constructed : obtained \notin Slots(w, o)
    /\ \A x \in Contexts : w.bound[x] # obtained

\* C26: when the bind fails in swap_buffers or resize on an attached swap
\* chain, the surface just obtained is passed to destroy once, the error
\* returned is that of the bind even when this destroy fails too, the bind
\* is made once and the surface is installed nowhere.
C26_BindRollback ==
    \A c \in Contexts, ch \in Constructed, rollback \in {0, 1} :
       ReachesBind(c, ch) =>
          /\ RolledBack(swap_buffers(World, BindFailsThen(rollback), c, ch),
                        Provided(ch), rollback)
          /\ \A size \in ValidSizes :
                RolledBack(resize(World, BindFailsThen(rollback), c, ch, size),
                           nsurf + 1, rollback)

\* C26's case: the bind of swap_buffers on an attached swap chain fails, and
\* so does the destroy of the new back buffer, which came from the pool.
C26_Witness ==
    \E c \in Contexts, ch \in Live :
       /\ ReachesBind(c, ch)
       /\ Provided(ch) \in Pooled(ch)
       /\ swap_buffers(World, BindFailsThen(1), c, ch).calls.failed = 2
       /\ swap_buffers(World, BindFailsThen(1), c, ch).err = "bind"

\* After the creation that led to w, id is a key of the table, its swap
\* chain belongs to context c and the index of c lists id.
Registered(w, c, id) ==
    /\ id \in DOMAIN w.table
    /\ w.chain[w.table[id]].context_id = c
    /\ c \in DOMAIN w.ids /\ id \in w.ids[c]

\* C27: create_attached_swap_chain(id) that returns Ok has made no device
\* call and left under id a swap chain that is attached, has the size of the
\* surface bound to the context and has neither pending nor pooled surface;
\* create_detached_swap_chain(id, size) that returns Ok has left under id a
\* detached swap chain of that size whose unattached surface is live and of
\* that size; either way the swap chain is of the creating context and id is
\* in that context's index.
C27_Creation ==
    FreeChain \in ChainObjs =>
       \A c \in Contexts, id \in Ids :
          /\ LET w == SwapChains_create_attached(World, c, id, FreeChain)
             IN w.res = "Ok" =>
                   /\ Registered(w, c, id)
                   /\ Observed(w, w.table[id]).is_attached
                   /\ w.chain[w.table[id]].size = ssize[bound[c]]
                   /\ SlotCount(w, w.table[id]) = 0
                   /\ w.calls = ZeroCalls /\ w.nsurf = nsurf /\ w.live = live
          /\ \A size \in ValidSizes, f \in {NoFault, [NoFault EXCEPT !.create = 1]} :
                LET w == SwapChains_create_detached(World, f, c, id, size, FreeChain)
                    surface == w.chain[w.table[id]].unattached_surface
                IN w.res = "Ok" =>
                      /\ Registered(w, c, id)
                      /\ ~Observed(w, w.table[id]).is_attached
                      /\ w.chain[w.table[id]].size = size
                      /\ surface \in w.live /\ w.ssize[surface] = size
                      /\ SlotCount(w, w.table[id]) = 1

\* C27's case: both creations have returned Ok, the one of a context whose
\* index had no entry yet, and their swap chains are in the table.
C27_Witness ==
    \E c, o \in Contexts, id, other \in Ids :
       /\ ret[c] = [op |-> "create_detached_swap_chain", res |-> "Ok"]
       /\ ret[o] = [op |-> "create_attached_swap_chain", res |-> "Ok"]
       /\ InTableOf(c, id) /\ Indexed(c, id) /\ Detached(table[id])
       /\ InTableOf(o, other) /\ Indexed(o, other) /\ ~Detached(table[other])

\* The ids of the pairs in a list.
ListedIds(list) == {list[i][1] : i \in DOMAIN list}

\* C28: while iter runs for context c the index cannot change; every id of
\* the index of c is looked up once (it is still to be visited or has been
\* visited); looking up an id that is a key of the table at that time adds
\* the one pair of id and the swap chain stored under it, and looking up
\* one that is not adds nothing; so the list holds at most one pair per id,
\* only ids of the index, always with a swap chain, and nothing collected by
\* an earlier iter.
C28_IterSnapshot ==
    \A c \in Contexts :
       pc[c] = "iter" =>
          /\ ids_lock = c
          /\ todo[c] \cup ListedIds(listed[c]) \subseteq (IF c \in DOMAIN ids THEN ids[c] ELSE {})
          /\ todo[c] \cap ListedIds(listed[c]) = {}
          /\ Cardinality(ListedIds(listed[c])) = Len(listed[c])
          /\ \A i \in DOMAIN listed[c] : listed[c][i][2] \in ChainObjs
          /\ \A id \in todo[c] :
                LET list == iter_filter_map(listed[c], table, id)
                IN IF id \in DOMAIN table
                   THEN /\ Len(list) = Len(listed[c]) + 1
                        /\ SubSeq(list, 1, Len(listed[c])) = listed[c]
                        /\ list[Len(list)] = <<id, get(id)>>
                   ELSE list = listed[c]

\* C28's case: an iter is about to return a list with a pair in it, having
\* skipped an id of the index that was not in the table, while the swap chain
\* of a listed pair has since been taken out of the table by another thread.
C28_Witness ==
    \E c \in Contexts :
       /\ pc[c] = "iter"
       /\ todo[c] = {}
       /\ listed[c] # << >>
       /\ ids[c] \ ListedIds(listed[c]) # {}
       /\ \E i \in DOMAIN listed[c] : listed[c][i][1] \notin DOMAIN table

\* size() of ch in w is the size of its back buffer.
SizeOfBackBuffer(w, ch) ==
    BackBuffer(w, ch) # None => w.chain[ch].size = w.ssize[BackBuffer(w, ch)]

\* C29: between calls, size() of every swap chain that has not been
\* destroyed is the size of its back buffer: of its unattached surface, or
\* of the surface bound to its context.
C29_SizeIsBackBufferSize == \A ch \in Live : SizeOfBackBuffer(World, ch)

\* C29's failing case: every swap chain has the size of its back buffer, and
\* a resize to another size whose destroy of the displaced back buffer fails
\* returns the error with the new back buffer installed and the old size
\* stored.
C29_Witness ==
    /\ \A ch \in Live : SizeOfBackBuffer(World, ch)
    /\ \E c \in Contexts, ch \in Live, size \in ValidSizes :
          LET w == resize(World, [NoFault EXCEPT !.destroy = 1], c, ch, size)
          IN /\ w.res = "BackendError" /\ w.err = "destroy"
             /\ BackBuffer(w, ch) \in w.live
             /\ w.ssize[BackBuffer(w, ch)] = size
             /\ w.chain[ch].size # size

\* The live surfaces that belong to swap chain ch: its back buffer, its
\* pending front buffer, its pool and what the consumer holds.
Belonging(ch) == (({BackBuffer(World, ch)} \ {None}) \cup Slots(World, ch) \cup held) \cap live

\* C30: with one swap chain, no device failure and a consumer that holds one
\* surface at a time and gives back what it took, at most 3 live surfaces
\* belong to the swap chain between calls, and no live surface is lost: each
\* one belongs to the swap chain or is bound to a context.
C30_AtMostThree ==
    \A ch \in Constructed :
       /\ Cardinality(Belonging(ch)) <= 3
       /\ live \subseteq Belonging(ch) \cup {bound[c] : c \in Contexts}

\* C30's case: the swap chain has created more than 3 surfaces over time and
\* 3 live ones belong to it now, one of them with the consumer.
C30_Witness ==
    \E ch \in Constructed :
       /\ nsurf - Cardinality(Contexts) > 3
       /\ Cardinality(Belonging(ch)) = 3
       /\ held # {}

\* C31: take_attachment_from aside, no set of threads running get, the two
\* creations, destroy, destroy_all, iter and calls on single swap chains can
\* deadlock: under fair scheduling every call a thread is inside returns.
C31_CallsReturn == \A t \in Threads : (~Free(t)) ~> Free(t)

\* C31's case: one thread holds the lock of the index and waits for the
\* table, whose write guard the other thread holds while it locks the swap
\* chain it has removed.
C31_Witness ==
    \E t, u \in Threads :
       /\ pc[t] = "destroy_all" /\ ids_lock = t /\ todo[t] # {}
       /\ pc[u] = "destroy_chain"

\* The swap chains on which destroy has returned Ok.
Destroyed == {ch \in ChainObjs : chain[ch].status = "destroyed"}

\* C32: once destroy has succeeded on a swap chain, the chain holds no
\* surface in any later state, a swap_buffers or take_attachment_from through
\* a surviving handle leaves the context's binding alone, and is_attached()
\* is not true of a chain that was detached when it was destroyed.
C32_DestroyedIsTerminal ==
    /\ \A ch \in Destroyed : Slots(World, ch) = {}
    /\ \A ch \in Destroyed, c \in Contexts :
          /\ swap_buffers(World, NoFault, c, ch).bound = bound
          /\ \A other \in Constructed \ {ch} :
                /\ take_attachment_from(World, NoFault, c, ch, other).bound = bound
                /\ take_attachment_from(World, NoFault, c, other, ch).bound = bound
    /\ \A ch \in Live, c \in Contexts :
          LET w == destroy(World, NoFault, c, ch)
          IN Detached(ch) /\ w.res = "Ok" => w.chain[ch].unattached_surface # None

\* C32's case: destroy has succeeded on a swap chain while a consumer still
\* holds a surface it can hand to recycle_surface.
C32_Witness == Destroyed # {} /\ held # {}

\* The contexts whose index holds id.
IndexedBy(id) == {c \in DOMAIN ids : id \in ids[c]}

\* C33: whatever creations, destroys (failed ones included) and destroy_alls
\* the contexts have made, an id is in the index of at most one context, a
\* destroy_all of context c removes from the table only swap chains whose
\* producer context is c, and it never returns IncompatibleContext.
C33_TeardownPerContext ==
    /\ \A id \in Ids : Cardinality(IndexedBy(id)) <= 1
    /\ \A c \in Contexts : \A id \in todo[c] :
          LET w == remove_and_destroy(World, NoFault, c, id)
          IN pc[c] = "destroy_all" /\ w.table # table =>
                chain[table[id]].context_id = c /\ w.res # "IncompatibleContext"
    /\ \A c \in Contexts : ret[c] # [op |-> "destroy_all", res |-> "IncompatibleContext"]

\* C33's case: a destroy_all is about to visit an id whose table entry was
\* created after a destroy of that id had returned an error.
C33_Witness ==
    \E c, d \in Contexts :
       /\ c # d
       /\ pc[c] = "destroy_all"
       /\ \E id \in todo[c] : id \in DOMAIN table /\ d \in IndexedBy(id)
       /\ ret[d].op = "destroy" /\ ret[d].res = "IncompatibleContext"

\* C34: in every reachable state, a swap_buffers, resize or
\* take_attachment_from that comes to unbind the context's surface finds a
\* surface bound to the context, so unwrapping what the unbind returns does
\* not panic.
C34_UnwrapFindsSurface ==
    \A c \in Contexts : \A ch \in Constructed :
       /\ swap_buffers(World, NoFault, c, ch).res # "Panic"
       /\ \A size \in ValidSizes : resize(World, NoFault, c, ch, size).res # "Panic"
       /\ \A other \in Constructed :
             take_attachment_from(World, NoFault, c, ch, other).res # "Panic"

\* C34's case: a context that has lost its surface while a live swap chain of
\* that context is attached.
C34_Witness ==
    \E ch \in Live : ~Detached(ch) /\ bound[chain[ch].context_id] = None

\* The device fails to create the initial surface of a detached swap chain.
CreateFails == [NoFault EXCEPT !.create = 1]

\* What holds of a creation of id by context c that has failed and led to w,
\* and of a second creation, made by retry from there: the registry is as it
\* was and the second creation succeeds.
RegistryKept(w, retry) ==
    /\ w.table = table
    /\ w.ids = ids
    /\ retry.res = "Ok"

\* C35: a creation that a thread starts and that fails although its id is
\* not in the table (the device fails to provide the initial surface, or the
\* context has no surface to attach to) leaves the table and the index as
\* they were, with the id in neither of them, and the same creation made
\* again without the failure succeeds.
C35_FailedCreation ==
    \A c \in Contexts, id \in Ids, size \in ValidSizes :
       pc[c] = "idle" /\ id \notin DOMAIN table /\ FreeChain \in ChainObjs =>
          LET det == SwapChains_create_detached(World, CreateFails, c, id, size, FreeChain)
              att == SwapChains_create_attached(World, c, id, FreeChain)
          IN /\ det.res = "BackendError"
             /\ RegistryKept(det, SwapChains_create_detached(Then(det), NoFault, c, id, size,
                                                             FreeChain))
             /\ id \notin DOMAIN det.table
             /\ ~(c \in DOMAIN det.ids /\ id \in det.ids[c])
             /\ att.res # "Ok" =>
                   /\ att.table = table /\ att.ids = ids
                   /\ ~(c \in DOMAIN att.ids /\ id \in att.ids[c])

\* The same without the clause on the index: a failed creation changes neither
\* the table nor the index, and can be made again.
C35_RegistryKept ==
    \A c \in Contexts, id \in Ids, size \in ValidSizes :
       pc[c] = "idle" /\ id \notin DOMAIN table /\ FreeChain \in ChainObjs =>
          LET det == SwapChains_create_detached(World, CreateFails, c, id, size, FreeChain)
          IN /\ det.res = "BackendError"
             /\ RegistryKept(det, SwapChains_create_detached(Then(det), NoFault, c, id, size,
                                                             FreeChain))
             /\ id \notin DOMAIN det.table

\* C35's case: no thread is inside a call, and a context is about to create
\* a swap chain under an id that is free in the table and that its index
\* still holds.
C35_Witness ==
    \E c \in Contexts, id \in Ids :
       Quiescent /\ FreeChain \in ChainObjs /\ id \notin DOMAIN table /\ Indexed(c, id)

====
